---------------------------- MODULE Spec2Model ----------------------------
(***************************************************************************)
(* Verification model of the Transcript Edit Ledger (app.py,               *)
(* route_helpers.py, models.py), of the Result Merger, the job listing     *)
(* with its cache, alone and under repeated polling, the phrase parser,    *)
(* the SAS expiry test and the job submission                              *)
(* (services/batch_service.py) and of the synchronous speech session       *)
(* (services/speech_service.py).  Each component has a specification of    *)
(* its own (LedgerSpec, MergeSpec, ListSpec, PollSpec, ParseSpec, SasSpec, *)
(* SubmitSpec, SpeechSpec and, with the fairness of its threads,           *)
(* FairSpeechSpec) that keeps the other components' variables at rest.     *)
(*                                                                         *)
(* The Ledger is stateless on the server: every request carries the        *)
(* client-held snapshot (segments, auditLog, availableSpeakers) and the    *)
(* response is the next snapshot.  The variables below are that snapshot,  *)
(* the last request and the last response.                                 *)
(*                                                                         *)
(* Left out of the records, because nothing below depends on them:         *)
(* timestamps (datetime.now()), the human-readable description / message   *)
(* strings, fullTranscript, the float-valued speakerStatistics and the     *)
(* derived to_dict fields (startTimeInSeconds, uiFormattedStartTime, ...). *)
(***************************************************************************)
EXTENDS Integers, Sequences, FiniteSets, TLC

VARIABLES
    segments,           \* client-held list of segment dictionaries
    auditLog,           \* client-held audit log (list of audit entries)
    availableSpeakers,  \* client-maintained roster (list of names)
    initialText,        \* text of every segment in the initial transcript
    opCount,            \* number of requests handled so far
    request,            \* the request handled by the last step
    response,           \* the response to it
    mergePc,            \* Result Merger: position in get_transcription_results
    files_data,         \* Result Merger: the job's file manifest (files_data['values'])
    file_indices,       \* Result Merger: the caller's selection, or NoIndices
    result_file_urls,   \* Result Merger: selected files, in processing order
    file_idx,           \* Result Merger: loop index into result_file_urls (0-based)
    all_segments,       \* Result Merger: merged SpeakerSegment objects
    time_offset,        \* Result Merger: cumulative offset of the loop
    mergeResult,        \* Result Merger: the BatchTranscriptionResult returned
    segmentFile,        \* for each merged segment, the file_idx it was added at
    rawOffset,          \* for each merged segment, its offset as parsed from its file
    downloaded,         \* Result Merger: the result files session.get was called for, in order
    listPc,             \* Job Cache: position in get_transcription_jobs
    cached_jobs,        \* Job Cache: the cachedJobs the caller passed (list of job dicts)
    force_refresh,      \* Job Cache: the forceRefresh flag the caller passed
    platform,           \* Job Cache: the platform's answer to GET /transcriptions
    jobs,               \* Job Cache: the TranscriptionJob objects built so far
    jobs_to_process,    \* Job Cache: positions (1-based) in jobs of the jobs lacking files
    file_fetch_tasks,   \* Job Cache: one _get_job_files_async task per job to process
    listReturn,         \* Job Cache: what get_transcription_jobs returned
    statusReturn,       \* Job Cache: what get_transcription_job_status returned
    sasInput,           \* SAS expiry: the URL examined and the value of utcnow()
    sasOutput,          \* SAS expiry: what _parse_sas_expiry / _is_sas_expired returned
    storage,            \* submit: config.IS_CONFIGURED and whether the client can be created
    blob_service_client,\* submit: self.blob_service_client after __init__
    submitPc,           \* submit: position (constructing, ready, returned)
    submitRequest,      \* submit: the audio_file_paths passed and the platform's behaviour
    submitResult,       \* submit: the TranscriptionJob returned or the exception raised
    speechPc,           \* session: position of the thread in transcribe_with_diarization
    has_error,          \* session: the has_error flag shared with the callbacks
    error_message,      \* session: the error_message shared with the callbacks
    done,               \* session: the done flag shared with the callbacks
    speechSegments,     \* session: the segments list the transcribed callback appends to
    canceledReasons,    \* session: reasons of the canceled events delivered so far, in order
    speechResult,       \* session: the TranscriptionResult returned or the exception raised
    callbackPc,         \* session: position of the callback thread inside canceled_callback
    sessionStopped,     \* session: a session-stopped event has been delivered
    parsePc,            \* phrase parser: called or not
    result_data,        \* phrase parser: result_data['recognizedPhrases'] of the body parsed
    parsed_segments,    \* phrase parser: the segments _parse_batch_transcription_segments returned
    platformStatus,     \* polling: the status of each job on the platform, now
    returnedRecords,    \* polling: the job dicts the list calls have returned to the client so far
    pollCount           \* polling: number of list calls made

ledgerVars == <<segments, auditLog, availableSpeakers, initialText, opCount, request, response>>
mergeVars == <<mergePc, files_data, file_indices, result_file_urls, file_idx, all_segments, time_offset, mergeResult, segmentFile, rawOffset, downloaded>>
listVars == <<listPc, cached_jobs, force_refresh, platform, jobs, jobs_to_process, file_fetch_tasks, listReturn, statusReturn>>
sasVars == <<sasInput, sasOutput>>
submitVars == <<storage, blob_service_client, submitPc, submitRequest, submitResult>>
speechVars == <<speechPc, has_error, error_message, done, speechSegments, canceledReasons, speechResult, callbackPc, sessionStopped>>
parseVars == <<parsePc, result_data, parsed_segments>>
pollVars == <<platformStatus, returnedRecords, pollCount>>
vars == <<segments, auditLog, availableSpeakers, initialText, opCount, request, response,
          mergePc, files_data, file_indices, result_file_urls, file_idx, all_segments,
          time_offset, mergeResult, segmentFile, rawOffset, downloaded,
          listPc, cached_jobs, force_refresh, platform, jobs, jobs_to_process, file_fetch_tasks, listReturn, statusReturn,
          sasInput, sasOutput,
          storage, blob_service_client, submitPc, submitRequest, submitResult,
          speechPc, has_error, error_message, done, speechSegments, canceledReasons, speechResult,
          callbackPc, sessionStopped,
          parsePc, result_data, parsed_segments,
          platformStatus, returnedRecords, pollCount>>

-----------------------------------------------------------------------------
(* Bounds *)

MaxSegments == 2
MaxOps == 2

-----------------------------------------------------------------------------
(* Values *)

\* Python None / an absent optional JSON field
NONE == "<None>"

\* Speaker names, listed in the order Python's sorted() puts them in
SpeakerOrder == <<"Alex", "Speaker 1", "Speaker 2">>

Speakers == {SpeakerOrder[i] : i \in 1..Len(SpeakerOrder)}

Texts == {"", "a", "b"}

OperationTypes == {"rename", "reassign", "delete"}

\* Python truthiness of an optional string: None and "" are falsy
Truthy(s) == s # NONE /\ s # ""

\* s.strip() is truthy (no name of the universe is whitespace-only)
NotBlank(s) == s # ""

Range(seq) == {seq[i] : i \in 1..Len(seq)}

\* sorted(list(set(xs))) for a list of speaker names
SortedUnique(xs) == SelectSeq(SpeakerOrder, LAMBDA s : s \in Range(xs))

\* list.remove(x): drops the first occurrence of x (x is in the list)
ListRemove(xs, x) ==
    LET p == CHOOSE i \in 1..Len(xs) : xs[i] = x /\ \A j \in 1..(i-1) : xs[j] # x
    IN  SubSeq(xs, 1, p-1) \o SubSeq(xs, p+1, Len(xs))

-----------------------------------------------------------------------------
(* models.py, route_helpers.py *)

\* SpeakerSegment.to_dict
to_dict(s) ==
    [speaker |-> s.speaker, text |-> s.text,
     offsetInTicks |-> s.offset_in_ticks, durationInTicks |-> s.duration_in_ticks,
     lineNumber |-> s.line_number,
     originalSpeaker |-> s.original_speaker, originalText |-> s.original_text]

parse_segments_from_dict(segments_data) ==
    [i \in 1..Len(segments_data) |->
        [speaker |-> segments_data[i].speaker, text |-> segments_data[i].text,
         offset_in_ticks |-> segments_data[i].offsetInTicks,
         duration_in_ticks |-> segments_data[i].durationInTicks,
         line_number |-> segments_data[i].lineNumber,
         original_speaker |-> segments_data[i].originalSpeaker,
         original_text |-> segments_data[i].originalText]]

assign_line_numbers(segs) ==
    [i \in 1..Len(segs) |-> [segs[i] EXCEPT !.line_number = i]]

\* the availableSpeakers part of calculate_speaker_statistics
calculate_speaker_statistics(segs) ==
    SortedUnique(SelectSeq([i \in 1..Len(segs) |-> segs[i].speaker], NotBlank))

rebuild_transcript(segs) ==
    [availableSpeakers |-> calculate_speaker_statistics(segs)]

validate_segment_update_noop_ok(segment_index, new_text, old_text, new_speaker, old_speaker, segments_count) ==
    IF segment_index < 0 \/ segment_index >= segments_count
    THEN [text_changed |-> FALSE, speaker_changed |-> FALSE, error |-> "Invalid segment index"]
    ELSE [text_changed |-> new_text # old_text,
          speaker_changed |-> (new_speaker # NONE /\ new_speaker # old_speaker),
          error |-> NONE]

validate_segment_update(segment_index, new_text, old_text, new_speaker, old_speaker, segments_count) ==
    IF segment_index < 0 \/ segment_index >= segments_count
    THEN [text_changed |-> FALSE, speaker_changed |-> FALSE, error |-> "Invalid segment index"]
    ELSE LET text_changed == new_text # old_text
             speaker_changed == new_speaker # NONE /\ new_speaker # old_speaker
         IN  IF ~text_changed /\ ~speaker_changed
             THEN [text_changed |-> FALSE, speaker_changed |-> FALSE, error |-> "No changes detected"]
             ELSE [text_changed |-> text_changed, speaker_changed |-> speaker_changed,
                   error |-> NONE]

\* an audit entry; fields an entry does not carry are NONE / -1 / << >>
AuditEntry(action, segmentIndex, lineNumber, speaker, oldText, newText, oldSpeaker, newSpeaker, segmentCount, affectedSegments) ==
    [action |-> action, segmentIndex |-> segmentIndex, lineNumber |-> lineNumber,
     speaker |-> speaker, oldText |-> oldText, newText |-> newText,
     oldSpeaker |-> oldSpeaker, newSpeaker |-> newSpeaker,
     segmentCount |-> segmentCount, affectedSegments |-> affectedSegments]

create_audit_entry(segment_data, segment_index, old_text, new_text, old_speaker, new_speaker, text_changed, speaker_changed) ==
    LET action == IF speaker_changed /\ text_changed THEN "edit_with_speaker_change"
                  ELSE IF speaker_changed THEN "speaker_change"
                  ELSE "edit"
        withSpeakers == speaker_changed /\ old_speaker # NONE /\ new_speaker # NONE
    IN  AuditEntry(action, segment_index, segment_data.lineNumber, segment_data.speaker,
                   old_text, new_text,
                   IF withSpeakers THEN old_speaker ELSE NONE,
                   IF withSpeakers THEN new_speaker ELSE NONE,
                   -1, << >>)

-----------------------------------------------------------------------------
(* app.py: update_segment_text *)

\* "Preserve original ... if this is the first edit": the value of the
\* original* field after the edit
preserve_original_always(changed, current, old_value) ==
    IF changed THEN old_value ELSE current

preserve_original(changed, current, old_value) ==
    IF changed /\ ~Truthy(current) THEN old_value ELSE current

NoRequest == [op |-> "none", segmentIndex |-> -1, newText |-> NONE,
              oldSpeaker |-> NONE, newSpeaker |-> NONE, operationType |-> NONE]

NoResponse == [status |-> "none", error |-> NONE, availableSpeakers |-> << >>,
               derivedSpeakers |-> << >>]

ErrorResponse(msg) == [status |-> "error", error |-> msg, availableSpeakers |-> << >>,
                       derivedSpeakers |-> << >>]

update_segment_text(segment_index, new_text, new_speaker) ==
    /\ opCount < MaxOps
    /\ opCount' = opCount + 1
    /\ request' = [op |-> "update_segment_text", segmentIndex |-> segment_index,
                   newText |-> new_text, oldSpeaker |-> NONE,
                   newSpeaker |-> new_speaker, operationType |-> NONE]
    /\ IF segment_index < 0 \/ segment_index >= Len(segments)
       THEN /\ response' = ErrorResponse("Invalid segment index")
            /\ UNCHANGED <<segments, auditLog, availableSpeakers>>
       ELSE LET segment_data == segments[segment_index + 1]
                old_text == segment_data.text
                old_speaker == segment_data.speaker
                v == validate_segment_update(segment_index, new_text, old_text,
                                             new_speaker, old_speaker, Len(segments))
            IN  IF v.error # NONE
                THEN /\ response' = ErrorResponse(v.error)
                     /\ UNCHANGED <<segments, auditLog, availableSpeakers>>
                ELSE LET updated ==
                             [segment_data EXCEPT
                                !.originalText = preserve_original(v.text_changed, @, old_text),
                                !.originalSpeaker = preserve_original(v.speaker_changed, @, old_speaker),
                                !.text = new_text,
                                !.speaker = IF v.speaker_changed THEN new_speaker ELSE @]
                         audit_entry == create_audit_entry(updated, segment_index, old_text,
                                            new_text, old_speaker, new_speaker,
                                            v.text_changed, v.speaker_changed)
                         segments_data == [segments EXCEPT ![segment_index + 1] = updated]
                         segs == parse_segments_from_dict(segments_data)
                         transcript_data == rebuild_transcript(segs)
                     IN  /\ segments' = [i \in 1..Len(segs) |-> to_dict(segs[i])]
                         /\ auditLog' = Append(auditLog, audit_entry)
                         /\ response' = [status |-> "ok", error |-> NONE,
                                         availableSpeakers |-> transcript_data.availableSpeakers,
                                         derivedSpeakers |-> transcript_data.availableSpeakers]
                         \* the request carries no roster and the handler returns
                         \* none but the derived one: the client's roster is its own
                         /\ UNCHANGED availableSpeakers
    /\ UNCHANGED initialText
    /\ UNCHANGED <<mergeVars, listVars, sasVars, submitVars, speechVars, parseVars, pollVars>>

-----------------------------------------------------------------------------
(* app.py: update_speaker_names *)

\* the loop over enumerate(segments): the 0-based indices of the segments
\* whose speaker is old_speaker, in list order
affected_segments_one_based(segs, old_speaker) ==
    SelectSeq([i \in 1..Len(segs) |-> i], LAMBDA i : segs[i].speaker = old_speaker)

affected_segments(segs, old_speaker) ==
    SelectSeq([i \in 1..Len(segs) |-> i - 1], LAMBDA i : segs[i + 1].speaker = old_speaker)

\* the same loop: segment.speaker = new_speaker for the matching segments
apply_speaker_change(segs, old_speaker, new_speaker) ==
    [i \in 1..Len(segs) |->
        IF segs[i].speaker = old_speaker THEN [segs[i] EXCEPT !.speaker = new_speaker]
        ELSE segs[i]]

\* "Update availableSpeakers list if operation affects it" (rename), then,
\* inside "if segment_count > 0", the removal of a deleted speaker
update_available_speakers(available_speakers, old_speaker, new_speaker, operation_type, segment_count) ==
    LET renamed ==
            IF operation_type = "rename" /\ old_speaker \in Range(available_speakers)
            THEN SortedUnique([i \in 1..Len(available_speakers) |->
                                IF available_speakers[i] = old_speaker THEN new_speaker
                                ELSE available_speakers[i]])
            ELSE available_speakers
    IN  IF segment_count > 0 /\ operation_type = "delete" /\ old_speaker \in Range(renamed)
        THEN ListRemove(renamed, old_speaker)
        ELSE renamed

\* "if segment_count > 0: ... audit_log.append(audit_entry)"
append_bulk_audit_always(audit_log, segment_count, audit_entry) ==
    Append(audit_log, audit_entry)

append_bulk_audit(audit_log, segment_count, audit_entry) ==
    IF segment_count > 0 THEN Append(audit_log, audit_entry) ELSE audit_log

\* transcript_data['availableSpeakers'] = available_speakers, and the
\* result dictionary built from both
final_available_speakers_derived(transcript_data, available_speakers) ==
    transcript_data.availableSpeakers

final_available_speakers(transcript_data, available_speakers) ==
    LET overridden == [transcript_data EXCEPT !.availableSpeakers = available_speakers]
        result == [availableSpeakers |-> overridden.availableSpeakers]
    IN  result.availableSpeakers

update_speaker_names(old_speaker, new_speaker, operation_type) ==
    /\ opCount < MaxOps
    /\ opCount' = opCount + 1
    /\ request' = [op |-> "update_speaker_names", segmentIndex |-> -1, newText |-> NONE,
                   oldSpeaker |-> old_speaker, newSpeaker |-> new_speaker,
                   operationType |-> operation_type]
    /\ LET parsed == assign_line_numbers(parse_segments_from_dict(segments))
           explicit == Truthy(old_speaker) /\ Truthy(new_speaker) /\ Truthy(operation_type)
           affected == IF explicit THEN affected_segments(parsed, old_speaker) ELSE << >>
           segment_count == Len(affected)
           segs == IF explicit THEN apply_speaker_change(parsed, old_speaker, new_speaker)
                   ELSE parsed
           available_speakers ==
               IF explicit
               THEN update_available_speakers(availableSpeakers, old_speaker, new_speaker,
                                              operation_type, segment_count)
               ELSE availableSpeakers
           audit_entry == AuditEntry("bulk_speaker_" \o operation_type, -1, -1, NONE, NONE, NONE,
                                     old_speaker, new_speaker, segment_count, affected)
           audit_log == IF explicit
                        THEN append_bulk_audit(auditLog, segment_count, audit_entry)
                        ELSE auditLog
           transcript_data == rebuild_transcript(segs)
       IN  /\ segments' = [i \in 1..Len(segs) |-> to_dict(segs[i])]
           /\ auditLog' = audit_log
           /\ response' = [status |-> "ok", error |-> NONE,
                           availableSpeakers |->
                               final_available_speakers(transcript_data, available_speakers),
                           derivedSpeakers |-> transcript_data.availableSpeakers]
           \* the client keeps the roster of the response
           /\ availableSpeakers' = response'.availableSpeakers
    /\ UNCHANGED initialText
    /\ UNCHANGED <<mergeVars, listVars, sasVars, submitVars, speechVars, parseVars, pollVars>>

-----------------------------------------------------------------------------
(* The Ledger as a state machine *)

\* no merge is running
MergerIdle ==
    /\ mergePc = "idle"
    /\ files_data = << >>
    /\ file_indices = << >>
    /\ result_file_urls = << >>
    /\ file_idx = 0
    /\ all_segments = << >>
    /\ time_offset = 0
    /\ mergeResult = [success |-> FALSE, message |-> NONE]
    /\ segmentFile = << >>
    /\ rawOffset = << >>
    /\ downloaded = << >>

\* no job listing is running
ListIdle ==
    /\ listPc = "idle"
    /\ cached_jobs = << >>
    /\ force_refresh = FALSE
    /\ platform = [ok |-> FALSE, values |-> << >>, answer |-> "none"]
    /\ jobs = << >>
    /\ jobs_to_process = << >>
    /\ file_fetch_tasks = << >>
    /\ listReturn = << >>
    /\ statusReturn = [raised |-> FALSE, value |-> << >>]

\* no URL is being examined
SasIdle ==
    /\ sasInput = [url |-> [given |-> FALSE, wellformed |-> TRUE, query |-> << >>], now |-> 0]
    /\ sasOutput = [called |-> FALSE, raised |-> FALSE, expired |-> FALSE]

\* no batch service has been constructed
SubmitIdle ==
    /\ storage = [IS_CONFIGURED |-> FALSE, client_created |-> FALSE]
    /\ blob_service_client = NONE
    /\ submitPc = "idle"
    /\ submitRequest = [audio_file_paths |-> << >>, uploaded |-> << >>, response_ok |-> FALSE]
    /\ submitResult = [raised |-> FALSE, status |-> NONE, error |-> NONE, files |-> << >>, contentUrls |-> << >>]

\* no synchronous session is running
SpeechIdle ==
    /\ speechPc = "idle"
    /\ has_error = FALSE
    /\ error_message = NONE
    /\ done = FALSE
    /\ speechSegments = << >>
    /\ canceledReasons = << >>
    /\ speechResult = [returned |-> FALSE, raised |-> FALSE, success |-> FALSE, message |-> NONE]
    /\ callbackPc = "idle"
    /\ sessionStopped = FALSE

\* no client is polling
PollIdle ==
    /\ platformStatus = << >>
    /\ returnedRecords = {}
    /\ pollCount = 0

\* no body is being parsed
ParseIdle ==
    /\ parsePc = "idle"
    /\ result_data = << >>
    /\ parsed_segments = << >>

\* no transcript is being edited
LedgerIdle ==
    /\ segments = << >>
    /\ auditLog = << >>
    /\ availableSpeakers = << >>
    /\ initialText = << >>
    /\ opCount = 0
    /\ request = NoRequest
    /\ response = NoResponse

\* the transcript a client starts from: as the parsers produce it, no
\* original* field set.  Line numbers are positional (single-file result)
\* or restart with every file (result merged from several files).
InitialLineNumberings(n) == {[i \in 1..n |-> i], [i \in 1..n |-> 1]}

InitialRosters == {<< >>, <<"Speaker 2", "Alex", "Speaker 1">>}

\* every segment says "a", or the first one is empty
InitialTexts(n) == {[i \in 1..n |-> "a"], [i \in 1..n |-> IF i = 1 THEN "" ELSE "a"]}

\* one speaker throughout, or two speakers taking turns
InitialSpeakers(n) == {[i \in 1..n |-> "Speaker 1"], [i \in 1..n |-> IF i % 2 = 1 THEN "Speaker 1" ELSE "Speaker 2"]}

LedgerInit ==
    /\ \E n \in 1..MaxSegments :
         \E sp \in InitialSpeakers(n), tx \in InitialTexts(n), ln \in InitialLineNumberings(n) :
            /\ segments = [i \in 1..n |->
                             [speaker |-> sp[i], text |-> tx[i],
                              offsetInTicks |-> 2 * (i - 1), durationInTicks |-> 1,
                              lineNumber |-> ln[i],
                              originalSpeaker |-> NONE, originalText |-> NONE]]
            /\ initialText = tx
    /\ auditLog = << >>
    /\ opCount = 0
    /\ availableSpeakers \in InitialRosters
    /\ request = NoRequest
    /\ response = NoResponse
    /\ MergerIdle
    /\ ListIdle
    /\ SasIdle
    /\ SubmitIdle
    /\ SpeechIdle
    /\ PollIdle
    /\ ParseIdle

\* the names a request asks for: one that sorts before the default labels
\* and one default label
NewSpeakers == {"Alex", "Speaker 2"}

\* requests with an index in range; one out of range; bulk operations; a
\* request that names no old speaker (no explicit operation)
LedgerNext ==
    \/ \E segment_index \in 0..(Len(segments) - 1), new_text \in Texts, new_speaker \in NewSpeakers \cup {NONE} :
          update_segment_text(segment_index, new_text, new_speaker)
    \/ update_segment_text(Len(segments), "a", NONE)
    \/ \E old_speaker \in Speakers, new_speaker \in NewSpeakers, operation_type \in OperationTypes :
          update_speaker_names(old_speaker, new_speaker, operation_type)
    \/ update_speaker_names(NONE, "Alex", "rename")

LedgerSpec == LedgerInit /\ [][LedgerNext]_vars

-----------------------------------------------------------------------------
(* Properties of the Ledger *)

Last(seq) == seq[Len(seq)]

\* the step handles an update_speaker_names request that names an operation
BulkStep ==
    /\ opCount' = opCount + 1
    /\ request'.op = "update_speaker_names"
    /\ Truthy(request'.oldSpeaker) /\ Truthy(request'.newSpeaker) /\ Truthy(request'.operationType)

\* the step handles an update_segment_text request
EditStep ==
    /\ opCount' = opCount + 1
    /\ request'.op = "update_segment_text"

\* positions (1-based) of the segments that have speaker name before the step
SegmentsOf(name) == {i \in 1..Len(segments) : segments[i].speaker = name}

\* a segment's stored content: every field but the positional lineNumber
Content(seg) == [speaker |-> seg.speaker, text |-> seg.text, offsetInTicks |-> seg.offsetInTicks, durationInTicks |-> seg.durationInTicks, originalSpeaker |-> seg.originalSpeaker, originalText |-> seg.originalText]

\* the audit log records a successful text-changing edit of segment i
HasTextEdit(i) ==
    \E k \in 1..Len(auditLog) :
        /\ auditLog[k].segmentIndex = i - 1
        /\ auditLog[k].action \in {"edit", "edit_with_speaker_change"}

TextEditCount(i) ==
    Cardinality({k \in 1..Len(auditLog) :
                    /\ auditLog[k].segmentIndex = i - 1
                    /\ auditLog[k].action \in {"edit", "edit_with_speaker_change"}})

\* C1: every segment starts with originalText unset; once its text has been
\* changed by one or more successful updateSegmentText calls, its
\* originalText is the text it had before the first of them, whatever that
\* text was (the empty string included).
C1_OriginalTextIsTextBeforeFirstEdit ==
    \A i \in 1..Len(segments) :
        HasTextEdit(i) => segments[i].originalText = initialText[i]

\* C2: once originalText or originalSpeaker of a segment is non-empty, no
\* Ledger operation changes it.
C2_OriginalsImmutable ==
    [][\A i \in 1..Len(segments) :
          /\ Truthy(segments[i].originalText)
                => segments'[i].originalText = segments[i].originalText
          /\ Truthy(segments[i].originalSpeaker)
                => segments'[i].originalSpeaker = segments[i].originalSpeaker]_vars

\* a segment whose originalText is set has been edited again, and one
\* whose originalSpeaker is set has been through a later operation
C2_Witness ==
    /\ opCount >= 2
    /\ \E i \in 1..Len(segments) :
          /\ Truthy(segments[i].originalText)
          /\ TextEditCount(i) >= 2
          /\ segments[i].text # segments[i].originalText

\* C5: a bulk operation matching k >= 1 segments appends exactly one audit
\* entry, with segmentCount = k and affectedSegments = the 0-based indices
\* of the k segments in list order; every other segment keeps its content
\* (its lineNumber is its 1-based position).
C5_BulkOneAuditEntry ==
    [][(BulkStep /\ SegmentsOf(request'.oldSpeaker) # {}) =>
          LET matching == SegmentsOf(request'.oldSpeaker)
              entry == Last(auditLog')
              a == entry.affectedSegments
          IN  /\ Len(auditLog') = Len(auditLog) + 1
              /\ SubSeq(auditLog', 1, Len(auditLog)) = auditLog
              /\ entry.action = "bulk_speaker_" \o request'.operationType
              /\ entry.segmentCount = Cardinality(matching)
              /\ Len(a) = Cardinality(matching)
              /\ {a[j] : j \in 1..Len(a)} = {i - 1 : i \in matching}
              /\ \A j \in 1..(Len(a) - 1) : a[j] < a[j + 1]
              /\ Len(segments') = Len(segments)
              /\ \A i \in 1..Len(segments) :
                    i \notin matching =>
                        /\ Content(segments'[i]) = Content(segments[i])
                        /\ segments'[i].lineNumber = i]_vars

\* a bulk rename has just changed some, not all, segments of a transcript
C5_Witness ==
    /\ request.op = "update_speaker_names"
    /\ Len(auditLog) >= 1
    /\ Last(auditLog).action = "bulk_speaker_rename"
    /\ Last(auditLog).segmentCount >= 1
    /\ Last(auditLog).segmentCount < Len(segments)
    /\ \E i \in 1..Len(segments) : segments[i].speaker # request.newSpeaker

\* C6: a bulk operation matching no segment emits no audit entry: the
\* audit log comes back as received and no segment's speaker changes.
C6_NoMatchNoAudit ==
    [][(BulkStep /\ SegmentsOf(request'.oldSpeaker) = {}) =>
          /\ auditLog' = auditLog
          /\ Len(segments') = Len(segments)
          /\ \A i \in 1..Len(segments) : segments'[i].speaker = segments[i].speaker]_vars

\* the only request so far was a bulk operation and it left the log empty
C6_Witness ==
    /\ opCount = 1
    /\ request.op = "update_speaker_names"
    /\ Truthy(request.oldSpeaker)
    /\ response.status = "ok"
    /\ auditLog = << >>

\* C7: after a bulk delete of oldSpeaker reassigning to newSpeaker
\* (oldSpeaker # newSpeaker), whatever the segments and the roster, the
\* returned roster does not contain oldSpeaker and every segment that had
\* speaker oldSpeaker has speaker newSpeaker.
C7_DeleteRemovesSpeaker ==
    [][(BulkStep /\ request'.operationType = "delete"
                 /\ request'.oldSpeaker # request'.newSpeaker) =>
          /\ \A j \in 1..Len(response'.availableSpeakers) :
                response'.availableSpeakers[j] # request'.oldSpeaker
          /\ \A i \in SegmentsOf(request'.oldSpeaker) :
                segments'[i].speaker = request'.newSpeaker]_vars

\* C8: an updateSegmentText request with the current text and with no or
\* the current speaker is rejected with a validation error; no audit entry
\* is appended and no segment changes.
C8_NoOpEditRejected ==
    [][(/\ EditStep
        /\ request'.segmentIndex >= 0 /\ request'.segmentIndex < Len(segments)
        /\ request'.newText = segments[request'.segmentIndex + 1].text
        /\ request'.newSpeaker \in {NONE, segments[request'.segmentIndex + 1].speaker}) =>
          /\ response'.status = "error"
          /\ response'.error # NONE
          /\ auditLog' = auditLog
          /\ segments' = segments]_vars

\* a no-op edit has just been rejected
C8_Witness ==
    /\ request.op = "update_segment_text"
    /\ request.segmentIndex < Len(segments)
    /\ request.newText = segments[request.segmentIndex + 1].text
    /\ response.status = "error"
    /\ response.error = "No changes detected"

\* C9: the availableSpeakers of the response to a bulk operation contains
\* every name of the request's roster that the operation did not rename or
\* delete (every name but oldSpeaker; for a reassign, every name), also
\* names that label no segment.
C9_RosterKept ==
    [][BulkStep =>
          \A j \in 1..Len(availableSpeakers) :
              (availableSpeakers[j] # request'.oldSpeaker \/ request'.operationType = "reassign")
                  => availableSpeakers[j] \in Range(response'.availableSpeakers)]_vars

\* the response to a bulk operation lists a name that labels no segment
C9_Witness ==
    /\ request.op = "update_speaker_names"
    /\ Truthy(request.oldSpeaker)
    /\ \E j \in 1..Len(response.availableSpeakers) :
          /\ response.availableSpeakers[j] # request.newSpeaker
          /\ \A i \in 1..Len(segments) : segments[i].speaker # response.availableSpeakers[j]

\* C10: for every successful Ledger mutation (updateSegmentText and the
\* bulk operations), a name of the client's roster that labels no segment,
\* and that the operation does not rename or delete, is still listed in
\* the availableSpeakers of the response.
C10_ZeroSegmentSpeakerListed ==
    [][(opCount' = opCount + 1 /\ response'.status = "ok") =>
          \A j \in 1..Len(availableSpeakers) :
              (/\ SegmentsOf(availableSpeakers[j]) = {}
               /\ availableSpeakers[j] # request'.oldSpeaker)
                  => availableSpeakers[j] \in Range(response'.availableSpeakers)]_vars

\* C23: for every roster received with a bulk operation, after a rename
\* the returned roster is the received one with newSpeaker in place of
\* oldSpeaker, without duplicates and sorted, and after a reassign the
\* returned roster equals the received roster.
C23_RenameSortsReassignKeepsRoster ==
    [][BulkStep =>
          /\ request'.operationType = "rename" =>
                /\ response'.availableSpeakers = SortedUnique(response'.availableSpeakers)
                /\ Range(response'.availableSpeakers) =
                      (Range(availableSpeakers) \ {request'.oldSpeaker})
                          \cup (IF request'.oldSpeaker \in Range(availableSpeakers) THEN {request'.newSpeaker} ELSE {})
          /\ request'.operationType = "reassign" =>
                response'.availableSpeakers = availableSpeakers]_vars

\* C27: after a bulk operation (rename, reassign or delete) every
\* non-blank speaker label carried by a returned segment is in the
\* returned availableSpeakers, also when newSpeaker was not in the received
\* roster, when oldSpeaker equals newSpeaker and when no roster was sent.
C27_SegmentSpeakersInRoster ==
    [][BulkStep =>
          \A i \in 1..Len(segments') :
              NotBlank(segments'[i].speaker)
                  => segments'[i].speaker \in Range(response'.availableSpeakers)]_vars

-----------------------------------------------------------------------------
(* services/batch_service.py: _parse_sas_expiry, _is_sas_expired           *)
(*                                                                         *)
(* A URL is a record: given (FALSE for None and for the empty string),     *)
(* wellformed (FALSE when urlparse raises ValueError on it) and query, the *)
(* key=value pairs of its query string in order.  An instant is its        *)
(* position on the time line of the instants listed in Timestamps; a call  *)
(* gives Returned(value) or Raised.                                        *)

MaxParams == 2

\* instants written as '%Y-%m-%dT%H:%M:%SZ', in chronological order
Timestamps == <<"2020-01-01T00:00:00Z", "2025-06-01T00:00:00Z", "2030-01-01T00:00:00Z">>

\* what a query parameter may carry: nothing, an instant in the expected
\* format, a date without time, no date at all
ParamValues == Range(Timestamps) \cup {"", "2020-01-01", "never"}

QueryKeys == {"se", "sig"}

\* datetime.utcnow(): before, at or after any of the instants
Moments == 0..Len(Timestamps)

Returned(value) == [raised |-> FALSE, value |-> value]

Raised == [raised |-> TRUE, value |-> NONE]

\* urlparse(url).query
urlparse(url) == IF url.wellformed THEN Returned(url.query) ELSE Raised

\* parse_qs(query).get(key, []): the non-blank values given for key, in
\* order (keep_blank_values is off); empty when key is not in the dict
parse_qs(query, key) ==
    LET pairs == SelectSeq(query, LAMBDA p : p.key = key /\ p.value # "")
    IN  [i \in 1..Len(pairs) |-> pairs[i].value]

_parse_sas_expiry_uncaught(url) ==
    IF ~url.given THEN Returned(NONE)
    ELSE LET parsed == urlparse(url)
         IN  IF parsed.raised THEN Raised
             ELSE LET se == parse_qs(parsed.value, "se")
                  IN  IF se # << >> THEN Returned(se[1]) ELSE Returned(NONE)

_parse_sas_expiry(url) ==
    IF ~url.given THEN Returned(NONE)
    ELSE LET parsed == urlparse(url)
         IN  IF parsed.raised THEN Returned(NONE)
             ELSE LET se == parse_qs(parsed.value, "se")
                  IN  IF se # << >> THEN Returned(se[1]) ELSE Returned(NONE)

\* datetime.strptime(date_string, '%Y-%m-%dT%H:%M:%SZ'), ValueError when
\* date_string is not in that format
strptime(date_string) ==
    IF date_string \in Range(Timestamps)
    THEN Returned(CHOOSE i \in 1..Len(Timestamps) : Timestamps[i] = date_string)
    ELSE Raised

_is_sas_expired_strict(url, now) ==
    LET expiry_str == _parse_sas_expiry(url)
    IN  IF expiry_str.raised THEN Raised
        ELSE IF ~Truthy(expiry_str.value) THEN Returned(FALSE)
        ELSE LET expiry_dt == strptime(expiry_str.value)
             IN  IF expiry_dt.raised THEN Returned(FALSE)
                 ELSE Returned(now > expiry_dt.value)

\* the call of _parse_sas_expiry is outside the try block
_is_sas_expired(url, now) ==
    LET expiry_str == _parse_sas_expiry(url)
    IN  IF expiry_str.raised THEN Raised
        ELSE IF ~Truthy(expiry_str.value) THEN Returned(FALSE)
        ELSE LET expiry_dt == strptime(expiry_str.value)
             IN  IF expiry_dt.raised THEN Returned(FALSE)
                 ELSE Returned(now >= expiry_dt.value)

\* one call of self._is_sas_expired(url)
is_sas_expired_call ==
    /\ ~sasOutput.called
    /\ LET outcome == _is_sas_expired(sasInput.url, sasInput.now)
       IN  sasOutput' = [called |-> TRUE, raised |-> outcome.raised,
                         expired |-> IF outcome.raised THEN FALSE ELSE outcome.value]
    /\ UNCHANGED sasInput
    /\ UNCHANGED <<ledgerVars, mergeVars, listVars, submitVars, speechVars, parseVars, pollVars>>

QueryPairs == [key : QueryKeys, value : ParamValues]

Queries == UNION {[1..n -> QueryPairs] : n \in 0..MaxParams}

\* None or '', malformed URLs, and URLs with any query
Urls == {[given |-> FALSE, wellformed |-> TRUE, query |-> << >>]} \cup [given : {TRUE}, wellformed : BOOLEAN, query : Queries]

SasInit ==
    /\ sasInput \in [url : Urls, now : Moments]
    /\ sasOutput = [called |-> FALSE, raised |-> FALSE, expired |-> FALSE]
    /\ LedgerIdle
    /\ MergerIdle
    /\ ListIdle
    /\ SubmitIdle
    /\ SpeechIdle
    /\ PollIdle
    /\ ParseIdle

SasNext == is_sas_expired_call

SasSpec == SasInit /\ [][SasNext]_vars

\* the values of the se parameters of a URL as written, blank ones included
SeValues(url) ==
    LET pairs == SelectSeq(url.query, LAMBDA p : p.key = "se")
    IN  {pairs[i].value : i \in 1..Len(pairs)}

\* the instant a well-formed timestamp denotes
InstantOf(timestamp) == CHOOSE i \in 1..Len(Timestamps) : Timestamps[i] = timestamp

\* C18: isExpired never raises; it answers false for a URL without an se
\* parameter, for a malformed (or absent) URL and for a URL none of whose
\* se values can be parsed, and true for a URL whose se values are all
\* timestamps earlier than now.
C18_IsExpiredNeverRaises ==
    sasOutput.called =>
        LET url == sasInput.url
        IN  /\ ~sasOutput.raised
            /\ (~url.given \/ ~url.wellformed) => ~sasOutput.expired
            /\ SeValues(url) = {} => ~sasOutput.expired
            /\ SeValues(url) \cap Range(Timestamps) = {} => ~sasOutput.expired
            /\ (/\ url.given
                /\ url.wellformed
                /\ SeValues(url) # {}
                /\ \A v \in SeValues(url) : v \in Range(Timestamps) /\ InstantOf(v) < sasInput.now)
                   => sasOutput.expired

\* a malformed URL that carries a past se timestamp has been examined
C18_Witness ==
    /\ sasOutput.called
    /\ ~sasOutput.raised
    /\ ~sasOutput.expired
    /\ ~sasInput.url.wellformed
    /\ \E v \in SeValues(sasInput.url) : v \in Range(Timestamps) /\ InstantOf(v) < sasInput.now

-----------------------------------------------------------------------------
(* services/batch_service.py: get_transcription_results (Result Merger)    *)
(*                                                                         *)
(* The model starts where the job is known to be Succeeded and its file    *)
(* manifest has been retrieved.  A file's contentUrl is represented by the *)
(* 0-based position of its entry in the manifest.                          *)

MaxFiles == 2
MaxSelected == 3

\* a recognized phrase of a result file
Phrase(speaker, offset, duration, nBest) == [speaker |-> speaker, offsetInTicks |-> offset, durationInTicks |-> duration, nBest |-> nBest]

\* the bodies a result file may have.  speaker is the phrase's tag as
\* written in the JSON, "null" for a null tag and "absent" for a phrase
\* without the key.
ResultBodies ==
    { << Phrase("1", 0, 2, <<"hello">>) >>,
      << Phrase("2", 1, 1, <<"hi", "high">>), Phrase("null", 3, 0, <<"yes">>) >>,
      << Phrase("1", 2, 1, <<" ">>) >> }

\* a contentUrl without SAS token, and one whose token expires at se
PlainUrl == [given |-> TRUE, wellformed |-> TRUE, query |-> << >>]

SasUrl(se) == [given |-> TRUE, wellformed |-> TRUE, query |-> << [key |-> "sig", value |-> "never"], [key |-> "se", value |-> se] >>]

\* datetime.utcnow() while the merge runs
MergeNow == strptime("2025-06-01T00:00:00Z").value

\* manifest entries: the report, and transcription files whose SAS token
\* expired earlier, whose token expires at the instant of the merge, whose
\* download is answered with an error status, or whose download gives a
\* body.  Behind an expired token there is a body with speech.
ManifestEntries ==
    {[kind |-> "TranscriptionReport", url |-> PlainUrl, response_ok |-> TRUE, recognizedPhrases |-> << >>]}
    \cup {[kind |-> "Transcription", url |-> SasUrl(se), response_ok |-> TRUE, recognizedPhrases |-> << Phrase("1", 0, 2, <<"hello">>) >>] : se \in {"2020-01-01T00:00:00Z", "2025-06-01T00:00:00Z"}}
    \cup {[kind |-> "Transcription", url |-> PlainUrl, response_ok |-> FALSE, recognizedPhrases |-> << >>]}
    \cup {[kind |-> "Transcription", url |-> SasUrl("2030-01-01T00:00:00Z"), response_ok |-> TRUE, recognizedPhrases |-> b] : b \in ResultBodies}

\* text.strip() is truthy
TextNotBlank(text) == text \notin {"", " "}

\* phrase.get('speaker', 0)
phrase_get_speaker(phrase) == IF phrase.speaker = "absent" THEN "0" ELSE phrase.speaker

\* f"Speaker {speaker}" if speaker is not None else "Unknown"
speaker_name(speaker) == IF speaker # "null" THEN "Speaker " \o speaker ELSE "Unknown"

\* _parse_batch_transcription_segments: one segment per phrase that has a
\* best candidate with non-blank text, numbered from 1
_parse_batch_transcription_segments(recognizedPhrases) ==
    LET kept == SelectSeq(recognizedPhrases,
                          LAMBDA phrase : Len(phrase.nBest) > 0 /\ TextNotBlank(phrase.nBest[1]))
    IN  [n \in 1..Len(kept) |->
            [line_number |-> n,
             speaker |-> speaker_name(phrase_get_speaker(kept[n])),
             text |-> kept[n].nBest[1],
             offset_in_ticks |-> kept[n].offsetInTicks,
             duration_in_ticks |-> kept[n].durationInTicks,
             original_speaker |-> NONE, original_text |-> NONE]]

\* "Build list of all transcription files": the manifest positions
\* (0-based) of the entries of kind Transcription, in manifest order
all_transcription_files(values) ==
    SelectSeq([i \in 1..Len(values) |-> i - 1], LAMBDA idx : values[idx + 1].kind = "Transcription")

\* "Determine which files to process"
select_result_files_manifest_order(transcription_files, indices) ==
    IF indices # << >>
    THEN SelectSeq(transcription_files, LAMBDA url : \E k \in 1..Len(indices) : indices[k] < Len(transcription_files) /\ transcription_files[indices[k] + 1] = url)
    ELSE IF transcription_files # << >> THEN << transcription_files[1] >> ELSE << >>

select_result_files(transcription_files, indices) ==
    IF indices # << >>
    THEN LET valid == SelectSeq(indices, LAMBDA idx : 0 <= idx /\ idx < Len(transcription_files))
         IN  [k \in 1..Len(valid) |-> transcription_files[valid[k] + 1]]
    ELSE IF transcription_files # << >> THEN << transcription_files[1] >> ELSE << >>

\* time_offset = last_segment.offset_in_ticks + last_segment.duration_in_ticks
cumulative_time_offset_duration_only(last_segment) ==
    last_segment.duration_in_ticks

cumulative_time_offset(last_segment) ==
    last_segment.offset_in_ticks + last_segment.duration_in_ticks

merge_select_files ==
    /\ mergePc = "start"
    /\ result_file_urls' = select_result_files(all_transcription_files(files_data), file_indices)
    /\ IF result_file_urls' = << >>
       THEN /\ mergeResult' = [success |-> FALSE, message |-> "No transcription results found"]
            /\ mergePc' = "done"
       ELSE /\ mergePc' = "loop"
            /\ UNCHANGED mergeResult
    /\ UNCHANGED <<files_data, file_indices, file_idx, all_segments, time_offset, segmentFile, rawOffset, downloaded>>
    /\ UNCHANGED <<ledgerVars, listVars, sasVars, submitVars, speechVars, parseVars, pollVars>>

\* one iteration of "for file_idx, result_file_url in enumerate(result_file_urls)";
\* file_idx counts the iterations begun.  An exception raised by
\* session.get (connection error, timeout) or by result_response.json()
\* (body that is not JSON) leaves the loop and the function through
\* "except Exception: return None"; mergeResult then keeps the value
\* [success |-> FALSE, message |-> NONE], which stands for None.
merge_process_file ==
    /\ mergePc = "loop"
    /\ file_idx < Len(result_file_urls)
    /\ file_idx' = file_idx + 1
    /\ LET result_file_url == result_file_urls[file_idx + 1]
           file == files_data[result_file_url + 1]
       IN  IF _is_sas_expired(file.url, MergeNow).value
           THEN UNCHANGED <<mergePc, all_segments, time_offset, segmentFile, rawOffset, downloaded>>
           ELSE /\ downloaded' = Append(downloaded, result_file_url)
                /\ \E raises \in BOOLEAN :
                      IF raises
                      THEN /\ mergePc' = "done"
                           /\ UNCHANGED <<all_segments, time_offset, segmentFile, rawOffset>>
                      ELSE /\ UNCHANGED mergePc
                           /\ IF ~file.response_ok
                              THEN UNCHANGED <<all_segments, time_offset, segmentFile, rawOffset>>
                              ELSE LET file_segments == _parse_batch_transcription_segments(file.recognizedPhrases)
                                       shift == file_idx > 0 /\ all_segments # << >>
                                       offset == IF shift THEN cumulative_time_offset(all_segments[Len(all_segments)])
                                                 ELSE time_offset
                                       shifted == [n \in 1..Len(file_segments) |->
                                                     IF shift
                                                     THEN [file_segments[n] EXCEPT !.offset_in_ticks = @ + offset]
                                                     ELSE file_segments[n]]
                                   IN  /\ time_offset' = offset
                                       /\ all_segments' = all_segments \o shifted
                                       /\ segmentFile' = segmentFile \o [n \in 1..Len(file_segments) |-> file_idx]
                                       /\ rawOffset' = rawOffset \o [n \in 1..Len(file_segments) |-> file_segments[n].offset_in_ticks]
    /\ UNCHANGED <<files_data, file_indices, result_file_urls, mergeResult>>
    /\ UNCHANGED <<ledgerVars, listVars, sasVars, submitVars, speechVars, parseVars, pollVars>>

merge_finish ==
    /\ mergePc = "loop"
    /\ file_idx = Len(result_file_urls)
    /\ mergePc' = "done"
    /\ mergeResult' = IF all_segments = << >>
                      THEN [success |-> FALSE, message |-> "No transcription data found in result files"]
                      ELSE [success |-> TRUE, message |-> "Retrieved segments"]
    /\ UNCHANGED <<files_data, file_indices, result_file_urls, file_idx, all_segments, time_offset, segmentFile, rawOffset, downloaded>>
    /\ UNCHANGED <<ledgerVars, listVars, sasVars, submitVars, speechVars, parseVars, pollVars>>

\* index lists of at most MaxSelected indices, one of them past the manifest
Selections(n) == UNION {[1..len -> 0..n] : len \in 0..MaxSelected}

MergeInit ==
    /\ \E n \in 1..MaxFiles :
          /\ files_data \in [1..n -> ManifestEntries]
          /\ file_indices \in Selections(n)
    /\ mergePc = "start"
    /\ result_file_urls = << >>
    /\ file_idx = 0
    /\ all_segments = << >>
    /\ time_offset = 0
    /\ mergeResult = [success |-> FALSE, message |-> NONE]
    /\ segmentFile = << >>
    /\ rawOffset = << >>
    /\ downloaded = << >>
    /\ LedgerIdle
    /\ ListIdle
    /\ SasIdle
    /\ SubmitIdle
    /\ SpeechIdle
    /\ PollIdle
    /\ ParseIdle

MergeNext ==
    \/ merge_select_files
    \/ merge_process_file
    \/ merge_finish

MergeSpec == MergeInit /\ [][MergeNext]_vars

\* positions k such that merged segments k and k+1 come from different files
FileBoundaries == {k \in 1..(Len(all_segments) - 1) : segmentFile[k] # segmentFile[k + 1]}

\* C3: across every file boundary of the merged list the offset does not
\* decrease: the first merged offset of the later file is >= the merged
\* offset of the last segment merged before it, also when files between
\* the two were skipped or gave no segments.
C3_MergedTimelineMonotone ==
    \A k \in FileBoundaries :
        all_segments[k + 1].offset_in_ticks >= all_segments[k].offset_in_ticks

\* two files have been merged across one that was skipped or gave nothing
C3_Witness ==
    \E k \in FileBoundaries :
        /\ segmentFile[k + 1] >= segmentFile[k] + 2
        /\ all_segments[k].offset_in_ticks > 0

\* C4 as claimed: the first merged offset of a later file equals the
\* cumulative end (merged offset + duration) of the last segment of the
\* file merged before it.
C4_FirstOffsetEqualsPreviousEnd ==
    \A k \in FileBoundaries :
        all_segments[k + 1].offset_in_ticks
            = all_segments[k].offset_in_ticks + all_segments[k].duration_in_ticks

\* C4 as amended: the first merged offset of a later file is the cumulative
\* end of the last segment merged before it plus the offset that first
\* segment has within its own file.
C4_FirstOffsetIsPreviousEndPlusOwnOffset ==
    \A k \in FileBoundaries :
        all_segments[k + 1].offset_in_ticks
            = all_segments[k].offset_in_ticks + all_segments[k].duration_in_ticks + rawOffset[k + 1]

\* a later file whose first phrase does not start at tick 0 has been merged
C4_Witness ==
    \E k \in FileBoundaries :
        /\ rawOffset[k + 1] > 0
        /\ all_segments[k].offset_in_ticks + all_segments[k].duration_in_ticks > 0

\* the call returned None
ReturnedNone == mergePc = "done" /\ mergeResult.message = NONE

\* the SAS token of the manifest entry at position url carries an expiry
\* that is at or before the instant of the merge
TokenExpired(url) ==
    \E v \in SeValues(files_data[url + 1].url) :
        v \in Range(Timestamps) /\ InstantOf(v) <= MergeNow

\* C15: the merge never downloads a selected file whose SAS expiry is at or
\* before now and never merges a segment of such a file; it skips the file
\* and goes on: the downloads made are exactly the unexpired files among
\* the selected files the loop has come to, in their order, and a merge
\* that returns a result has come to every selected file.
C15_ExpiredFileSkipped ==
    /\ downloaded = SelectSeq(SubSeq(result_file_urls, 1, file_idx), LAMBDA url : ~TokenExpired(url))
    /\ \A k \in 1..Len(all_segments) : ~TokenExpired(result_file_urls[segmentFile[k] + 1])
    /\ (mergePc = "done" /\ ~ReturnedNone) => file_idx = Len(result_file_urls)

\* a file whose token expires at the very instant of the merge was skipped
\* and a file selected after it was downloaded and merged
C15_Witness ==
    /\ mergePc = "done"
    /\ mergeResult.success
    /\ \E i \in 1..Len(result_file_urls) :
          /\ "2025-06-01T00:00:00Z" \in SeValues(files_data[result_file_urls[i] + 1].url)
          /\ \E k \in 1..Len(all_segments) : segmentFile[k] + 1 > i
          /\ \E d \in 1..Len(downloaded) : \E j \in (i + 1)..Len(result_file_urls) : downloaded[d] = result_file_urls[j]

\* C16: once the merge of a Succeeded job with a manifest is over, it has
\* reported success if and only if some selected file yielded a segment,
\* and it has returned a result (with a message), never None: no failure
\* of a single file makes the merge return None.
C16_SuccessIffSomeFileYieldsSegment ==
    mergePc = "done" =>
        /\ ~ReturnedNone
        /\ mergeResult.success <=> all_segments # << >>

\* the files the caller's selection names, in the caller's order: the
\* transcription-kind entries at the listed positions (positions past the
\* list name nothing), or the first transcription-kind entry
CallerOrder ==
    LET transcription_files == SelectSeq([i \in 1..Len(files_data) |-> i - 1], LAMBDA url : files_data[url + 1].kind = "Transcription")
        named == SelectSeq(file_indices, LAMBDA idx : idx < Len(transcription_files))
    IN  IF file_indices = << >>
        THEN IF transcription_files = << >> THEN << >> ELSE << transcription_files[1] >>
        ELSE [k \in 1..Len(named) |-> transcription_files[named[k] + 1]]

\* C17: without indices only the first transcription-kind file is used;
\* with indices the files are taken in the caller's order, repeated and
\* non-ascending indices included, the merged segments are grouped by file
\* in that order, and the segments of one file keep their order.
C17_CallerOrderKept ==
    mergePc # "start" =>
        /\ result_file_urls = CallerOrder
        /\ \A k \in 1..Len(all_segments) :
              LET file == files_data[CallerOrder[segmentFile[k] + 1] + 1]
                  file_segments == _parse_batch_transcription_segments(file.recognizedPhrases)
                  n == all_segments[k].line_number
              IN  /\ n \in 1..Len(file_segments)
                  /\ all_segments[k].text = file_segments[n].text
                  /\ all_segments[k].speaker = file_segments[n].speaker
        /\ \A k \in 1..(Len(all_segments) - 1) :
              \/ segmentFile[k] < segmentFile[k + 1]
              \/ /\ segmentFile[k] = segmentFile[k + 1]
                 /\ all_segments[k + 1].line_number = all_segments[k].line_number + 1

\* a merge of files selected in descending manifest order, one of them
\* twice, has succeeded with segments of two different files
C17_Witness ==
    /\ mergePc = "done"
    /\ mergeResult.success
    /\ \E i \in 1..(Len(file_indices) - 1) : file_indices[i] > file_indices[i + 1]
    /\ \E i \in 1..Len(file_indices) : \E j \in 1..Len(file_indices) : i # j /\ file_indices[i] = file_indices[j]
    /\ \E k \in 1..Len(all_segments) : \E m \in 1..Len(all_segments) :
          /\ segmentFile[k] < segmentFile[m]
          /\ result_file_urls[segmentFile[k] + 1] > result_file_urls[segmentFile[m] + 1]

\* get_transcription_files_list: for every manifest entry of kind
\* Transcription, in manifest order, a dict whose 'index' is the entry's
\* position idx in the whole manifest and whose 'url' is its contentUrl
get_transcription_files_list(values) ==
    LET kept == SelectSeq([i \in 1..Len(values) |-> i - 1], LAMBDA idx : values[idx + 1].kind = "Transcription")
    IN  [k \in 1..Len(kept) |-> [index |-> kept[k], url |-> kept[k]]]

\* the dict of the files list that carries index idx, if there is one
Reported(idx) ==
    \E k \in 1..Len(get_transcription_files_list(files_data)) : get_transcription_files_list(files_data)[k].index = idx

ReportedUrl(idx) ==
    LET list == get_transcription_files_list(files_data)
    IN  list[CHOOSE k \in 1..Len(list) : list[k].index = idx].url

\* C25: when every index the caller passes to the merge is an index the
\* files list reports for a result file of the same manifest, the files the
\* merge selects are the files those indices were reported for, in the
\* caller's order, also when the report or another entry that is not a
\* transcription comes before or between the transcription entries.
C25_ReportedIndexSelectsSameFile ==
    (/\ mergePc # "start"
     /\ file_indices # << >>
     /\ \A k \in 1..Len(file_indices) : Reported(file_indices[k])) =>
        result_file_urls = [k \in 1..Len(file_indices) |-> ReportedUrl(file_indices[k])]

\* C26: in every successful merge result, one built from several files
\* included, the segment at 0-based position k has lineNumber k + 1.
C26_MergedLineNumbersConsecutive ==
    (mergePc = "done" /\ mergeResult.success) =>
        \A k \in 1..Len(all_segments) : all_segments[k].line_number = k

-----------------------------------------------------------------------------
(* services/batch_service.py: _parse_batch_transcription_segments as a     *)
(* function of the body: every list of up to MaxPhrases phrases            *)

MaxPhrases == 2

\* the speaker tags a phrase may carry: a number, null, or no key at all
SpeakerTags == {"1", "2", "null", "absent"}

\* the candidate lists a phrase may carry (display texts, best first)
CandidateLists == {<< >>, <<"hello">>, <<" ">>, <<"hi", "high">>}

\* the phrase at position i of a body
PhraseAt(i, tag, nBest) == Phrase(tag, 2 * (i - 1), 1, nBest)

parse_call ==
    /\ parsePc = "start"
    /\ parsePc' = "returned"
    /\ parsed_segments' = _parse_batch_transcription_segments(result_data)
    /\ UNCHANGED result_data
    /\ UNCHANGED <<ledgerVars, mergeVars, listVars, sasVars, submitVars, speechVars, pollVars>>

ParseInit ==
    /\ parsePc = "start"
    /\ \E n \in 0..MaxPhrases :
          \E tags \in [1..n -> SpeakerTags], candidates \in [1..n -> CandidateLists] :
              result_data = [i \in 1..n |-> PhraseAt(i, tags[i], candidates[i])]
    /\ parsed_segments = << >>
    /\ LedgerIdle
    /\ MergerIdle
    /\ ListIdle
    /\ SasIdle
    /\ SubmitIdle
    /\ SpeechIdle
    /\ PollIdle

ParseNext == parse_call

ParseSpec == ParseInit /\ [][ParseNext]_vars

\* positions of the phrases whose best candidate has non-blank text
Speaking(phrases) ==
    SelectSeq([i \in 1..Len(phrases) |-> i],
              LAMBDA i : Len(phrases[i].nBest) > 0 /\ phrases[i].nBest[1] \notin {"", " "})

\* C24: the parser returns exactly one segment per phrase whose best
\* candidate has non-blank text, in input order, numbered 1, 2, ..., with
\* speaker "Speaker N" for a phrase tagged N and "Unknown" for a phrase
\* whose tag is null or absent.
C24_OneSegmentPerSpeakingPhrase ==
    parsePc = "returned" =>
        LET speaking == Speaking(result_data)
        IN  /\ Len(parsed_segments) = Len(speaking)
            /\ \A n \in 1..Len(speaking) :
                  LET phrase == result_data[speaking[n]]
                      segment == parsed_segments[n]
                  IN  /\ segment.line_number = n
                      /\ segment.text = phrase.nBest[1]
                      /\ segment.offset_in_ticks = phrase.offsetInTicks
                      /\ segment.speaker = (IF phrase.speaker \in {"null", "absent"}
                                            THEN "Unknown"
                                            ELSE "Speaker " \o phrase.speaker)

-----------------------------------------------------------------------------
(* services/batch_service.py: get_transcription_jobs (Job Cache) and       *)
(* _get_job_files_async (File Resolver)                                    *)
(*                                                                         *)
(* A job of the platform's list is a job_data dict: self (the path of its  *)
(* URL), displayName, status, contentUrls.  A URL that names a file is a   *)
(* record of the UUID prefix the upload put before the name ("" for none)  *)
(* and the name.  A cached job is a dict as to_dict of an earlier call     *)
(* produced it.  jobs holds the objects of the first pass; the file lists  *)
(* the second pass assigns are in listReturn.                              *)

MaxJobs == 2

JobIds == <<"a", "b", "c", "d">>

\* url.split('/')[-1].split('?')[0], then without its UUID prefix
file_name_of(url) == url.name

\* the input file of job job_id as the upload named it
UploadedFile(job_id) == [prefix |-> "uuid", name |-> job_id \o ".wav"]

\* what the platform may list for a job: running, or succeeded, with or
\* without contentUrls; the display name is the current one
PlatformRecords(job_id) ==
    {[self |-> <<"transcriptions", job_id>>, displayName |-> "new name", status |-> "Running", contentUrls |-> << >>],
     [self |-> <<"transcriptions", job_id>>, displayName |-> "new name", status |-> "Succeeded", contentUrls |-> << >>],
     [self |-> <<"transcriptions", job_id>>, displayName |-> "new name", status |-> "Succeeded", contentUrls |-> << UploadedFile(job_id) >>]}

\* what the client may hold for a job from an earlier call, under the name
\* the job had then
CachedRecords(job_id) ==
    {[id |-> job_id, displayName |-> "old name", status |-> "Succeeded", files |-> << job_id \o ".wav" >>, resultsUrl |-> NONE],
     [id |-> job_id, displayName |-> "old name", status |-> "Failed", files |-> << >>, resultsUrl |-> NONE],
     [id |-> job_id, displayName |-> "old name", status |-> "Running", files |-> << >>, resultsUrl |-> NONE]}

\* job_data.get('self', '').split('/')[-1]
job_id_of(job_data) == Last(job_data.self)

_parse_job_data(job_data) ==
    [id |-> job_id_of(job_data),
     display_name |-> job_data.displayName,
     status |-> job_data.status,
     files |-> [i \in 1..Len(job_data.contentUrls) |-> file_name_of(job_data.contentUrls[i])],
     results_url |-> NONE]

_dict_to_job(job_dict) ==
    [id |-> job_dict.id,
     display_name |-> job_dict.displayName,
     status |-> job_dict.status,
     files |-> job_dict.files,
     results_url |-> job_dict.resultsUrl]

is_terminal_status_succeeded_only(status) == status = "Succeeded"

is_terminal_status_or_running(status) == status \in {"Succeeded", "Failed", "Running"}

\* status in ['Succeeded', 'Failed']
is_terminal_status(status) == status \in {"Succeeded", "Failed"}

cached_completed_jobs_whatever_the_flag(cached, force) ==
    SelectSeq(cached, LAMBDA cached_job : is_terminal_status(cached_job.status))

\* the dict cached_completed_jobs, as the list of its values
cached_completed_jobs(cached, force) ==
    IF cached # << >> /\ ~force
    THEN SelectSeq(cached, LAMBDA cached_job : is_terminal_status(cached_job.status))
    ELSE << >>

\* job_id in cached_completed_jobs
in_cache(completed, job_id) == \E k \in 1..Len(completed) : completed[k].id = job_id

\* cached_completed_jobs[job_id]: the last dict stored under the key
cached_job_of(completed, job_id) ==
    completed[CHOOSE k \in 1..Len(completed) :
                 /\ completed[k].id = job_id
                 /\ \A m \in (k + 1)..Len(completed) : completed[m].id # job_id]

queue_for_files_platform_only(job, from_cache) == ~from_cache /\ job.files = << >>

\* "not job.files or len(job.files) == 0", for cached and for parsed jobs
queue_for_files(job, from_cache) == job.files = << >>

\* the object the first pass appends to jobs for one job_data
first_pass_job(job_data, completed) ==
    IF in_cache(completed, job_id_of(job_data))
    THEN _dict_to_job(cached_job_of(completed, job_id_of(job_data)))
    ELSE _parse_job_data(job_data)

\* a coroutine _get_job_files_async(job.id) that has not run yet
NewTask(job_id) == [job_id |-> job_id, pc |-> "created", result |-> << >>, failed |-> FALSE]

\* how a call of the platform can end: an OK response with a body that
\* parses, a response that is not OK, session.get raising (connection
\* error, timeout), response.json() raising on the body, or the parsing of
\* a job record raising on a field of an unexpected type
PlatformAnswers == {"ok", "not_ok", "get_raises", "json_raises", "parse_raises"}

\* a list call whose try block has no except clause
list_on_failure_uncaught(answer) == IF answer = "not_ok" THEN Returned(<< >>) ELSE Raised

\* get_transcription_jobs when the call of the platform fails:
\* "if not response.ok: return []" and "except Exception: return []"
list_on_failure(answer) == Returned(<< >>)

\* get_transcription_jobs up to the point where it awaits the gathered
\* tasks: the cache lookup, GET /transcriptions and the first pass
list_fetch_jobs ==
    /\ listPc = "start"
    /\ \E answer \in PlatformAnswers :
          /\ platform' = [platform EXCEPT !.ok = (answer = "ok"), !.answer = answer]
          /\ IF answer # "ok"
             THEN /\ listPc' = (IF list_on_failure(answer).raised THEN "raised" ELSE "done")
                  /\ listReturn' = << >>
                  /\ UNCHANGED <<jobs, jobs_to_process, file_fetch_tasks>>
             ELSE LET completed == cached_completed_jobs(cached_jobs, force_refresh)
                      parsed == [i \in 1..Len(platform.values) |-> first_pass_job(platform.values[i], completed)]
                      lacking == SelectSeq([i \in 1..Len(parsed) |-> i],
                                           LAMBDA i : queue_for_files(parsed[i], in_cache(completed, job_id_of(platform.values[i]))))
                  IN  /\ jobs' = parsed
                      /\ jobs_to_process' = lacking
                      /\ file_fetch_tasks' = [k \in 1..Len(lacking) |-> NewTask(parsed[lacking[k]].id)]
                      /\ IF lacking = << >>
                         THEN listPc' = "done" /\ listReturn' = parsed
                         ELSE listPc' = "gather" /\ UNCHANGED listReturn
    /\ UNCHANGED <<cached_jobs, force_refresh, statusReturn>>
    /\ UNCHANGED <<ledgerVars, mergeVars, sasVars, submitVars, speechVars, parseVars, pollVars>>

\* task k runs up to "async with session.get(url) as response"
task_get_files(k) ==
    /\ listPc = "gather"
    /\ file_fetch_tasks[k].pc = "created"
    /\ file_fetch_tasks' = [file_fetch_tasks EXCEPT ![k].pc = "awaiting_files"]
    /\ UNCHANGED <<listPc, cached_jobs, force_refresh, platform, jobs, jobs_to_process, listReturn, statusReturn>>
    /\ UNCHANGED <<ledgerVars, mergeVars, sasVars, submitVars, speechVars, parseVars, pollVars>>

\* task k is resumed with the answer to GET /transcriptions/{job_id}/files:
\* an exception (caught, the task returns []), a status that is not OK,
\* entries of kind Audio, a report only, or nothing of use
task_files_response(k) ==
    /\ listPc = "gather"
    /\ file_fetch_tasks[k].pc = "awaiting_files"
    /\ \E answer \in {"raises", "not_ok", "audio", "report", "nothing"} :
          LET task == file_fetch_tasks[k]
          IN  file_fetch_tasks' = [file_fetch_tasks EXCEPT ![k] =
                  CASE answer \in {"raises", "not_ok"} -> [task EXCEPT !.pc = "done", !.result = << >>, !.failed = TRUE]
                    [] answer = "audio" -> [task EXCEPT !.pc = "done", !.result = << task.job_id \o ".wav" >>]
                    [] answer = "report" -> [task EXCEPT !.pc = "awaiting_report"]
                    [] answer = "nothing" -> [task EXCEPT !.pc = "done", !.result = << >>]]
    /\ UNCHANGED <<listPc, cached_jobs, force_refresh, platform, jobs, jobs_to_process, listReturn, statusReturn>>
    /\ UNCHANGED <<ledgerVars, mergeVars, sasVars, submitVars, speechVars, parseVars, pollVars>>

\* task k is resumed with the answer to the GET of the report: an
\* exception, a status that is not OK, or the details naming the source
task_report_response(k) ==
    /\ listPc = "gather"
    /\ file_fetch_tasks[k].pc = "awaiting_report"
    /\ \E answer \in {"raises", "not_ok", "details"} :
          LET task == file_fetch_tasks[k]
          IN  file_fetch_tasks' = [file_fetch_tasks EXCEPT ![k] =
                  IF answer = "details"
                  THEN [task EXCEPT !.pc = "done", !.result = << file_name_of(UploadedFile(task.job_id)) >>]
                  ELSE [task EXCEPT !.pc = "done", !.result = << >>, !.failed = TRUE]]
    /\ UNCHANGED <<listPc, cached_jobs, force_refresh, platform, jobs, jobs_to_process, listReturn, statusReturn>>
    /\ UNCHANGED <<ledgerVars, mergeVars, sasVars, submitVars, speechVars, parseVars, pollVars>>

gather_in_reverse(tasks) == [k \in 1..Len(tasks) |-> tasks[Len(tasks) + 1 - k].result]

\* asyncio.gather(*file_fetch_tasks, return_exceptions=True): the results
\* in the order of the tasks, whatever the order they finished in
gather(tasks) == [k \in 1..Len(tasks) |-> tasks[k].result]

\* the body of "for job, files_result in zip(jobs_to_process, files_results)"
with_files_result(job, files_result) ==
    IF files_result # << >> THEN [job EXCEPT !.files = files_result] ELSE job

\* get_transcription_jobs from the return of gather to its own return
list_update_files ==
    /\ listPc = "gather"
    /\ \A k \in 1..Len(file_fetch_tasks) : file_fetch_tasks[k].pc = "done"
    /\ LET files_results == gather(file_fetch_tasks)
       IN  listReturn' = [i \in 1..Len(jobs) |->
                            IF \E k \in 1..Len(jobs_to_process) : jobs_to_process[k] = i
                            THEN with_files_result(jobs[i], files_results[CHOOSE k \in 1..Len(jobs_to_process) : jobs_to_process[k] = i])
                            ELSE jobs[i]]
    /\ listPc' = "done"
    /\ UNCHANGED <<cached_jobs, force_refresh, platform, jobs, jobs_to_process, file_fetch_tasks, statusReturn>>
    /\ UNCHANGED <<ledgerVars, mergeVars, sasVars, submitVars, speechVars, parseVars, pollVars>>

\* get_transcription_job_status when the call of the platform fails:
\* "if not response.ok: return None" and "except Exception: return None";
\* None is the empty sequence, a job the sequence of that job
status_on_failure(answer) == Returned(<< >>)

\* get_transcription_job_status for the job at position i of the
\* platform's jobs: GET /transcriptions/{job_id}, _parse_job_data, then
\* _get_job_files, which catches its own exceptions and returns [] for them
get_transcription_job_status(i) ==
    /\ listPc = "start"
    /\ \E answer \in PlatformAnswers, files \in {<< >>, << file_name_of(UploadedFile(job_id_of(platform.values[i]))) >>} :
          /\ platform' = [platform EXCEPT !.ok = (answer = "ok"), !.answer = answer]
          /\ statusReturn' = (IF answer # "ok"
                              THEN status_on_failure(answer)
                              ELSE LET job == _parse_job_data(platform.values[i])
                                   IN  Returned(<< IF files # << >> THEN [job EXCEPT !.files = files] ELSE job >>))
          /\ listPc' = (IF statusReturn'.raised THEN "status_raised" ELSE "status_done")
    /\ UNCHANGED <<cached_jobs, force_refresh, jobs, jobs_to_process, file_fetch_tasks, listReturn>>
    /\ UNCHANGED <<ledgerVars, mergeVars, sasVars, submitVars, speechVars, parseVars, pollVars>>

\* what the client holds for the listed jobs: for each job nothing or one
\* of the CachedRecords, in the order of the list
CacheChoices(n) == [1..n -> {"none", "Succeeded", "Failed", "Running"}]

CachedJobsOf(n, choice) ==
    LET held == SelectSeq([i \in 1..n |-> i], LAMBDA i : choice[i] # "none")
    IN  [k \in 1..Len(held) |-> CHOOSE c \in CachedRecords(JobIds[held[k]]) : c.status = choice[held[k]]]

ListInit ==
    /\ \E n \in 1..MaxJobs :
          /\ \E values \in [1..n -> UNION {PlatformRecords(JobIds[i]) : i \in 1..n}] :
                /\ \A i \in 1..n : job_id_of(values[i]) = JobIds[i]
                /\ platform = [ok |-> TRUE, values |-> values, answer |-> "ok"]
          /\ \E choice \in CacheChoices(n) : cached_jobs = CachedJobsOf(n, choice)
    /\ force_refresh \in BOOLEAN
    /\ listPc = "start"
    /\ jobs = << >>
    /\ jobs_to_process = << >>
    /\ file_fetch_tasks = << >>
    /\ listReturn = << >>
    /\ statusReturn = [raised |-> FALSE, value |-> << >>]
    /\ LedgerIdle
    /\ MergerIdle
    /\ SasIdle
    /\ SubmitIdle
    /\ SpeechIdle
    /\ PollIdle
    /\ ParseIdle

ListNext ==
    \/ list_fetch_jobs
    \/ \E i \in 1..Len(platform.values) : get_transcription_job_status(i)
    \/ \E k \in 1..Len(file_fetch_tasks) : task_get_files(k)
    \/ \E k \in 1..Len(file_fetch_tasks) : task_files_response(k)
    \/ \E k \in 1..Len(file_fetch_tasks) : task_report_response(k)
    \/ list_update_files

ListSpec == ListInit /\ [][ListNext]_vars

\* the list call has returned the jobs the platform listed
Listed == listPc = "done" /\ platform.ok

\* the cached dict of a job id, if the client passed one
IsCached(job_id) == \E k \in 1..Len(cached_jobs) : cached_jobs[k].id = job_id

CachedDict(job_id) == cached_jobs[CHOOSE k \in 1..Len(cached_jobs) : cached_jobs[k].id = job_id]

CachedTerminal(job_id) == IsCached(job_id) /\ CachedDict(job_id).status \in {"Succeeded", "Failed"}

\* the task that fetched the files of the job at position i, if there is one
HasTask(i) == \E k \in 1..Len(jobs_to_process) : jobs_to_process[k] = i

TaskOf(i) == file_fetch_tasks[CHOOSE k \in 1..Len(jobs_to_process) : jobs_to_process[k] = i]

\* the names the platform's record of a job carries in its contentUrls
ContentNames(job_data) == [i \in 1..Len(job_data.contentUrls) |-> job_data.contentUrls[i].name]

\* job is the platform's record job_data as parsed in this call, its files
\* those of the record or, when it has none, those the task fetched
IsPlatformRecord(i) ==
    LET job == listReturn[i]
        job_data == platform.values[i]
    IN  /\ job.id = job_data.self[Len(job_data.self)]
        /\ job.status = job_data.status
        /\ job.display_name = job_data.displayName
        /\ job.results_url = NONE
        /\ IF job_data.contentUrls # << >>
           THEN job.files = ContentNames(job_data)
           ELSE HasTask(i) /\ job.files = TaskOf(i).result

\* C11: with cachedJobs and forceRefresh = false, a listed job cached as
\* Succeeded or Failed is returned from its cached record (name and status
\* as cached, and its cached files if it has any), and a listed job cached
\* with another status, or not cached, is returned as the platform
\* reports it in this call.
C11_TerminalFromCacheOthersFromPlatform ==
    (Listed /\ ~force_refresh) =>
        /\ Len(listReturn) = Len(platform.values)
        /\ \A i \in 1..Len(platform.values) :
              LET job_id == platform.values[i].self[Len(platform.values[i].self)]
              IN  IF CachedTerminal(job_id)
                  THEN /\ listReturn[i].id = job_id
                       /\ listReturn[i].status = CachedDict(job_id).status
                       /\ listReturn[i].display_name = CachedDict(job_id).displayName
                       /\ CachedDict(job_id).files # << >> => listReturn[i].files = CachedDict(job_id).files
                  ELSE IsPlatformRecord(i)

\* a list has returned one job from a Failed cached record although the
\* platform reports another status, and one job cached as Running with
\* the status the platform reports now
C11_Witness ==
    /\ Listed
    /\ ~force_refresh
    /\ \E i \in 1..Len(listReturn) :
          /\ CachedTerminal(listReturn[i].id)
          /\ listReturn[i].status = "Failed"
          /\ platform.values[i].status # "Failed"
    /\ \E i \in 1..Len(listReturn) :
          /\ IsCached(listReturn[i].id)
          /\ CachedDict(listReturn[i].id).status = "Running"
          /\ listReturn[i].status = "Succeeded"

\* C12: a listed job cached as Succeeded or Failed with an empty cached
\* file list has a files task of its own; it is returned with the cached
\* status and with the files its task returned in this call (none if the
\* resolver found none or failed).
C12_CachedTerminalWithoutFilesRefetched ==
    (Listed /\ ~force_refresh) =>
        \A i \in 1..Len(platform.values) :
            LET job_id == platform.values[i].self[Len(platform.values[i].self)]
            IN  (CachedTerminal(job_id) /\ CachedDict(job_id).files = << >>) =>
                    /\ HasTask(i)
                    /\ TaskOf(i).job_id = job_id
                    /\ listReturn[i].status = CachedDict(job_id).status
                    /\ listReturn[i].files = TaskOf(i).result
                    /\ TaskOf(i).failed => listReturn[i].files = << >>

\* a job cached as Failed without files has been returned, still Failed,
\* with the file its own task fetched
C12_Witness ==
    /\ Listed
    /\ ~force_refresh
    /\ \E i \in 1..Len(listReturn) :
          /\ CachedTerminal(listReturn[i].id)
          /\ CachedDict(listReturn[i].id).files = << >>
          /\ listReturn[i].status = "Failed"
          /\ listReturn[i].files = << listReturn[i].id \o ".wav" >>

\* C13: with forceRefresh = true every returned job is the platform's
\* record as parsed in this call, whatever cachedJobs holds: name, status
\* and files come from the platform, none from a cached dict.
C13_ForceRefreshBypassesCache ==
    (Listed /\ force_refresh) =>
        /\ Len(listReturn) = Len(platform.values)
        /\ \A i \in 1..Len(platform.values) : IsPlatformRecord(i)

\* a forced list has returned, as the platform reports it, a job the
\* client holds as Succeeded with files under its old name
C13_Witness ==
    /\ Listed
    /\ force_refresh
    /\ \E i \in 1..Len(listReturn) :
          /\ CachedTerminal(listReturn[i].id)
          /\ CachedDict(listReturn[i].id).files # << >>
          /\ listReturn[i].status = "Running"
          /\ listReturn[i].display_name = "new name"
          /\ listReturn[i].files = << >>

\* C14: the files of the jobs lacking them are fetched by one task per
\* job, the tasks advancing in any order; whichever of them fail, the list
\* returns every job, a job whose task did not fail has exactly the files
\* its own task returned (files of its own job id), and a job whose task
\* failed keeps the file list it had.
C14_FileFetchesIsolated ==
    /\ Len(file_fetch_tasks) = Len(jobs_to_process)
    /\ \A k \in 1..Len(file_fetch_tasks) :
          /\ file_fetch_tasks[k].job_id = jobs[jobs_to_process[k]].id
          /\ file_fetch_tasks[k].result \in {<< >>, << file_fetch_tasks[k].job_id \o ".wav" >>}
          /\ file_fetch_tasks[k].failed => file_fetch_tasks[k].result = << >>
    /\ Listed =>
          /\ Len(listReturn) = Len(platform.values)
          /\ \A i \in 1..Len(listReturn) :
                /\ listReturn[i].id = jobs[i].id
                /\ listReturn[i].status = jobs[i].status
                /\ IF HasTask(i)
                   THEN IF TaskOf(i).failed
                        THEN listReturn[i].files = jobs[i].files
                        ELSE listReturn[i].files = TaskOf(i).result
                   ELSE listReturn[i].files = jobs[i].files

\* a list has returned two jobs whose tasks ran: the task of the first
\* failed, the task of the second fetched its file
C14_Witness ==
    /\ Listed
    /\ \E i \in 1..Len(listReturn) : \E j \in 1..Len(listReturn) :
          /\ i < j
          /\ HasTask(i)
          /\ HasTask(j)
          /\ TaskOf(i).failed
          /\ listReturn[i].files = << >>
          /\ ~TaskOf(j).failed
          /\ listReturn[j].files = << listReturn[j].id \o ".wav" >>

\* the call of the platform made by the operation that is over has failed
PlatformCallFailed == platform.answer \in PlatformAnswers \ {"ok"}

\* C22: when the list operation's call of the platform has failed (a
\* response that is not OK, or an exception while getting, decoding or
\* parsing it) the list has returned the empty list, when that of the
\* status operation has failed it has returned None, and neither
\* operation ever ends by raising.
C22_PlatformFailureDegrades ==
    /\ listPc \notin {"raised", "status_raised"}
    /\ (listPc = "done" /\ PlatformCallFailed) => listReturn = << >>
    /\ (listPc = "status_done" /\ PlatformCallFailed) => (~statusReturn.raised /\ statusReturn.value = << >>)

\* a list call for which the body of the platform's answer could not be
\* decoded has returned, with a non-empty cache in hand
C22_Witness ==
    /\ listPc = "done"
    /\ platform.answer = "json_raises"
    /\ cached_jobs # << >>
    /\ listReturn = << >>

-----------------------------------------------------------------------------
(* services/batch_service.py: get_transcription_jobs under repeated        *)
(* polling (app.py: get_batch_jobs)                                        *)
(*                                                                         *)
(* The client calls the list again and again, passing as cachedJobs job    *)
(* dicts that earlier calls returned; between the calls the platform moves *)
(* its two jobs forward.  A list call is one step: the platform lists every    *)
(* job and answers the files request of a job that lacks files with the    *)
(* job's file or with nothing.                                             *)

MaxPolls == 2

\* the transitions of a job's status on the platform
NextStatuses(status) ==
    CASE status = "NotStarted" -> {"Running"}
      [] status = "Running" -> {"Succeeded", "Failed"}
      [] OTHER -> {}

\* the platform's record of the job at position j: the first job was
\* submitted with contentUrls, the others without
PlatformRecordOf(j, status) ==
    [self |-> <<"transcriptions", JobIds[j]>>, displayName |-> "new name", status |-> status, contentUrls |-> IF j = 1 THEN << UploadedFile(JobIds[j]) >> ELSE << >>]

\* TranscriptionJob.to_dict, as jsonify sends it to the client
job_to_dict(job) ==
    [id |-> job.id, displayName |-> job.display_name, status |-> job.status, files |-> job.files, resultsUrl |-> job.results_url]

\* the place of a job the client holds no dict of
NoRecord == [id |-> NONE, displayName |-> NONE, status |-> NONE, files |-> << >>, resultsUrl |-> NONE]

\* the cachedJobs a client can pass: for every job at most one of the
\* dicts returned for it, in the order of the jobs
CachesFrom(records, n) ==
    {SelectSeq(held, LAMBDA r : r.id # NONE) :
        held \in {h \in [1..n -> records \cup {NoRecord}] : \A j \in 1..n : h[j].id \in {NONE, JobIds[j]}}}

\* the platform moves job j forward
platform_advance(j) ==
    /\ listPc = "polling"
    /\ \E status \in NextStatuses(platformStatus[j]) :
          platformStatus' = [platformStatus EXCEPT ![j] = status]
    /\ UNCHANGED <<returnedRecords, pollCount>>
    /\ UNCHANGED <<ledgerVars, mergeVars, listVars, sasVars, submitVars, speechVars, parseVars>>

\* get_batch_jobs: one call of get_transcription_jobs and the jsonify of
\* its result
poll_list ==
    /\ listPc = "polling"
    /\ pollCount < MaxPolls
    /\ pollCount' = pollCount + 1
    /\ \E force \in BOOLEAN, answer \in {"ok", "not_ok"}, cached \in CachesFrom(returnedRecords, Len(platformStatus)) :
          LET values == [j \in 1..Len(platformStatus) |-> PlatformRecordOf(j, platformStatus[j])]
              completed == cached_completed_jobs(cached, force)
              parsed == [i \in 1..Len(values) |-> first_pass_job(values[i], completed)]
              lacking == SelectSeq([i \in 1..Len(parsed) |-> i],
                                   LAMBDA i : queue_for_files(parsed[i], in_cache(completed, job_id_of(values[i]))))
          IN  \E fetched \in [1..Len(lacking) -> BOOLEAN] :
                 LET files_results == [k \in 1..Len(lacking) |->
                                         IF fetched[k] THEN << file_name_of(UploadedFile(parsed[lacking[k]].id)) >> ELSE << >>]
                     result == [i \in 1..Len(parsed) |->
                                  IF \E k \in 1..Len(lacking) : lacking[k] = i
                                  THEN with_files_result(parsed[i], files_results[CHOOSE k \in 1..Len(lacking) : lacking[k] = i])
                                  ELSE parsed[i]]
                 IN  /\ cached_jobs' = cached
                     /\ force_refresh' = force
                     /\ platform' = [ok |-> (answer = "ok"), values |-> values, answer |-> answer]
                     /\ jobs' = (IF answer = "ok" THEN parsed ELSE << >>)
                     /\ jobs_to_process' = (IF answer = "ok" THEN lacking ELSE << >>)
                     /\ listReturn' = (IF answer = "ok" THEN result ELSE list_on_failure(answer).value)
                     /\ returnedRecords' = returnedRecords \cup {job_to_dict(listReturn'[i]) : i \in 1..Len(listReturn')}
    /\ UNCHANGED <<listPc, file_fetch_tasks, statusReturn, platformStatus>>
    /\ UNCHANGED <<ledgerVars, mergeVars, sasVars, submitVars, speechVars, parseVars>>

PollInit ==
    /\ platformStatus = <<"NotStarted", "NotStarted">>
    /\ returnedRecords = {}
    /\ pollCount = 0
    /\ listPc = "polling"
    /\ cached_jobs = << >>
    /\ force_refresh = FALSE
    /\ platform = [ok |-> FALSE, values |-> << >>, answer |-> "none"]
    /\ jobs = << >>
    /\ jobs_to_process = << >>
    /\ file_fetch_tasks = << >>
    /\ listReturn = << >>
    /\ statusReturn = [raised |-> FALSE, value |-> << >>]
    /\ LedgerIdle
    /\ MergerIdle
    /\ SasIdle
    /\ SubmitIdle
    /\ SpeechIdle
    /\ ParseIdle

PollNext ==
    \/ \E j \in 1..Len(platformStatus) : platform_advance(j)
    \/ poll_list

PollSpec == PollInit /\ [][PollNext]_vars

\* C28: with job statuses that only move NotStarted -> Running ->
\* Succeeded or Failed on the platform, and cachedJobs that are dicts
\* returned by earlier list calls, every list call that the platform
\* answers returns, with or without forceRefresh, every job with the
\* status the job has on the platform at that call.
C28_ListedStatusIsPlatformStatus ==
    [][(pollCount' = pollCount + 1 /\ platform'.ok) =>
          /\ Len(listReturn') = Len(platformStatus)
          /\ \A j \in 1..Len(platformStatus) :
                /\ listReturn'[j].id = JobIds[j]
                /\ listReturn'[j].status = platformStatus[j]]_vars

\* a later call without forceRefresh was passed one job cached as
\* Succeeded and one cached as Running that has succeeded since, and has
\* returned both as Succeeded
C28_Witness ==
    /\ pollCount >= 2
    /\ platform.ok
    /\ ~force_refresh
    /\ \E i \in 1..Len(listReturn) : \E j \in 1..Len(listReturn) :
          /\ CachedTerminal(listReturn[i].id)
          /\ listReturn[i].status = "Succeeded"
          /\ IsCached(listReturn[j].id)
          /\ CachedDict(listReturn[j].id).status = "Running"
          /\ listReturn[j].status = "Succeeded"
          /\ platformStatus[j] = "Succeeded"

-----------------------------------------------------------------------------
(* services/batch_service.py: __init__, create_batch_transcription,        *)
(* _upload_files_to_blob_storage, _create_placeholder_job (submit)         *)
(*                                                                         *)
(* A path is the list of its components.  storage says whether             *)
(* config.IS_CONFIGURED holds and whether _create_blob_service_client      *)
(* returns a client; submitRequest says which of the files the storage     *)
(* accepts and whether the platform answers the POST with an OK status.    *)

MaxPaths == 2

FileNames == {"a.wav", "b.wav"}

\* f.split('/')[-1], os.path.basename(f)
basename(path) == path[Len(path)]

\* the constructor, from "self.blob_service_client = None" on
__init__ ==
    /\ submitPc = "constructing"
    /\ blob_service_client' = IF storage.IS_CONFIGURED /\ storage.client_created THEN "BlobServiceClient" ELSE NONE
    /\ submitPc' = "ready"
    /\ UNCHANGED <<storage, submitRequest, submitResult>>
    /\ UNCHANGED <<ledgerVars, mergeVars, listVars, sasVars, speechVars, parseVars, pollVars>>

\* the blob URLs of the files whose upload did not raise, in input order
_upload_files_to_blob_storage(audio_file_paths, uploaded) ==
    LET done_ == SelectSeq([i \in 1..Len(audio_file_paths) |-> i], LAMBDA i : uploaded[i])
    IN  [k \in 1..Len(done_) |-> [prefix |-> "uuid", name |-> basename(audio_file_paths[done_[k]])]]

_create_placeholder_job(audio_file_paths, is_configured) ==
    [raised |-> FALSE,
     status |-> "NotStarted",
     error |-> IF is_configured THEN NONE ELSE "Placeholder job - Azure Blob Storage not configured",
     files |-> [i \in 1..Len(audio_file_paths) |-> basename(audio_file_paths[i])],
     contentUrls |-> << >>]

\* an exception leaves create_batch_transcription
SubmitRaised == [raised |-> TRUE, status |-> NONE, error |-> NONE, files |-> << >>, contentUrls |-> << >>]

create_batch_transcription ==
    /\ submitPc = "ready"
    /\ submitPc' = "returned"
    /\ LET audio_file_paths == submitRequest.audio_file_paths
       IN  IF blob_service_client = NONE \/ ~storage.IS_CONFIGURED
           THEN submitResult' = _create_placeholder_job(audio_file_paths, storage.IS_CONFIGURED)
           ELSE LET blob_urls == _upload_files_to_blob_storage(audio_file_paths, submitRequest.uploaded)
                IN  IF blob_urls = << >> \/ ~submitRequest.response_ok
                    THEN submitResult' = SubmitRaised
                    ELSE submitResult' = [raised |-> FALSE,
                                          status |-> "NotStarted",
                                          error |-> NONE,
                                          files |-> [i \in 1..Len(audio_file_paths) |-> basename(audio_file_paths[i])],
                                          contentUrls |-> blob_urls]
    /\ UNCHANGED <<storage, blob_service_client, submitRequest>>
    /\ UNCHANGED <<ledgerVars, mergeVars, listVars, sasVars, speechVars, parseVars, pollVars>>

SubmitInit ==
    /\ storage \in [IS_CONFIGURED : BOOLEAN, client_created : BOOLEAN]
    /\ \E n \in 1..MaxPaths :
          submitRequest \in [audio_file_paths : [1..n -> {<<"uploads", f>> : f \in FileNames}],
                             uploaded : [1..n -> BOOLEAN],
                             response_ok : BOOLEAN]
    /\ blob_service_client = NONE
    /\ submitPc = "constructing"
    /\ submitResult = [raised |-> FALSE, status |-> NONE, error |-> NONE, files |-> << >>, contentUrls |-> << >>]
    /\ LedgerIdle
    /\ MergerIdle
    /\ ListIdle
    /\ SasIdle
    /\ SpeechIdle
    /\ PollIdle
    /\ ParseIdle

SubmitNext ==
    \/ __init__
    \/ create_batch_transcription

SubmitSpec == SubmitInit /\ [][SubmitNext]_vars

\* submit found the storage unavailable: not configured, or configured
\* without a client
StorageUnavailable == ~storage.IS_CONFIGURED \/ ~storage.client_created

\* C19: a submit that finds the storage unavailable (not configured, or
\* configured but without a client) does not raise; it returns a job in
\* state NotStarted whose error field is a non-empty message.
C19_PlaceholderCarriesError ==
    (submitPc = "returned" /\ StorageUnavailable) =>
        /\ ~submitResult.raised
        /\ submitResult.status = "NotStarted"
        /\ Truthy(submitResult.error)

\* the input files whose upload did not raise, by name, in input order
UploadedNames ==
    LET done_ == SelectSeq([i \in 1..Len(submitRequest.audio_file_paths) |-> i], LAMBDA i : submitRequest.uploaded[i])
    IN  [k \in 1..Len(done_) |-> basename(submitRequest.audio_file_paths[done_[k]])]

\* C30: when submit succeeds with the storage available, the files listed
\* in the returned job are exactly the input files that were uploaded and
\* whose URLs were submitted to the platform; an input file whose upload
\* failed is not listed.
C30_ReturnedFilesAreUploadedFiles ==
    (submitPc = "returned" /\ ~StorageUnavailable /\ ~submitResult.raised) =>
        /\ submitResult.files = UploadedNames
        /\ submitResult.files = [k \in 1..Len(submitResult.contentUrls) |-> file_name_of(submitResult.contentUrls[k])]

-----------------------------------------------------------------------------
(* services/speech_service.py: transcribe_with_diarization (synchronous    *)
(* session)                                                                *)
(*                                                                         *)
(* The calling thread starts the transcriber, polls done, stops the        *)
(* transcriber and builds the result; the SDK's callback thread runs the   *)
(* callbacks, one at a time, from the start until the transcriber has been *)
(* stopped.  A canceled callback that sets has_error writes the flags in   *)
(* two steps, has_error and error_message first and done last, and the     *)
(* calling thread can run between the two.  Durations are left out of the  *)
(* segments.                                                               *)

MaxCanceled == 2
MaxTranscribed == 1

CancellationReasons == {"EndOfStream", "Error", "CancelledByUser"}

CancellationErrorCodes == {"AuthenticationFailure", "ConnectionFailure", "RuntimeError"}

\* the callback thread can start a callback
Transcribing == speechPc \in {"polling", "stopping"} /\ callbackPc = "idle"

\* conversation_transcriber.start_transcribing_async().get()
start_transcribing ==
    /\ speechPc = "created"
    /\ speechPc' = "polling"
    /\ UNCHANGED <<has_error, error_message, done, speechSegments, canceledReasons, speechResult, callbackPc, sessionStopped>>
    /\ UNCHANGED <<ledgerVars, mergeVars, listVars, sasVars, submitVars, parseVars, pollVars>>

transcribed_callback(reason, speaker_id, text) ==
    /\ Transcribing
    /\ Len(speechSegments) < MaxTranscribed
    /\ reason = "RecognizedSpeech"
    /\ speechSegments' = Append(speechSegments,
                                [speaker |-> IF speaker_id # "" THEN speaker_id ELSE "Unknown",
                                 text |-> text,
                                 offset_in_ticks |-> Len(speechSegments),
                                 line_number |-> 0])
    /\ UNCHANGED <<speechPc, has_error, error_message, done, canceledReasons, speechResult, callbackPc, sessionStopped>>
    /\ UNCHANGED <<ledgerVars, mergeVars, listVars, sasVars, submitVars, parseVars, pollVars>>

\* the message canceled_callback builds for a cancellation with reason Error
error_message_for(error_code) ==
    CASE error_code = "AuthenticationFailure" -> "Authentication failed: Invalid subscription key or region."
      [] error_code = "ConnectionFailure" -> "Connection failed: Unable to connect to Azure Speech Service."
      [] OTHER -> "Error during transcription"

\* a canceled callback that treats no reason as an error
canceled_callback_done_only(reason, error_code) ==
    /\ Transcribing
    /\ Len(canceledReasons) < MaxCanceled
    /\ canceledReasons' = Append(canceledReasons, reason)
    /\ done' = TRUE
    /\ UNCHANGED <<has_error, error_message, callbackPc>>
    /\ UNCHANGED <<speechPc, speechSegments, speechResult, sessionStopped>>
    /\ UNCHANGED <<ledgerVars, mergeVars, listVars, sasVars, submitVars, parseVars, pollVars>>

\* canceled_callback up to its last statement: EndOfStream sets done and
\* returns; every other reason sets has_error and error_message and has
\* "done = True" still to run
canceled_callback(reason, error_code) ==
    /\ Transcribing
    /\ Len(canceledReasons) < MaxCanceled
    /\ canceledReasons' = Append(canceledReasons, reason)
    /\ IF reason = "EndOfStream"
       THEN /\ done' = TRUE
            /\ UNCHANGED <<has_error, error_message, callbackPc>>
       ELSE /\ has_error' = TRUE
            /\ error_message' = (IF reason = "Error"
                                 THEN error_message_for(error_code)
                                 ELSE "Transcription canceled: " \o reason)
            /\ callbackPc' = "canceled"
            /\ UNCHANGED done
    /\ UNCHANGED <<speechPc, speechSegments, speechResult, sessionStopped>>
    /\ UNCHANGED <<ledgerVars, mergeVars, listVars, sasVars, submitVars, parseVars, pollVars>>

\* the last statement of canceled_callback: done = True
canceled_callback_done ==
    /\ callbackPc = "canceled"
    /\ callbackPc' = "idle"
    /\ done' = TRUE
    /\ UNCHANGED <<speechPc, has_error, error_message, speechSegments, canceledReasons, speechResult, sessionStopped>>
    /\ UNCHANGED <<ledgerVars, mergeVars, listVars, sasVars, submitVars, parseVars, pollVars>>

session_stopped_callback ==
    /\ Transcribing
    /\ done' = TRUE
    /\ sessionStopped' = TRUE
    /\ UNCHANGED <<speechPc, has_error, error_message, speechSegments, canceledReasons, speechResult, callbackPc>>
    /\ UNCHANGED <<ledgerVars, mergeVars, listVars, sasVars, submitVars, parseVars, pollVars>>

\* a polling loop that does not look at done
leave_polling_loop_unconditionally ==
    /\ speechPc = "polling"
    /\ speechPc' = "stopping"
    /\ UNCHANGED <<has_error, error_message, done, speechSegments, canceledReasons, speechResult, callbackPc, sessionStopped>>
    /\ UNCHANGED <<ledgerVars, mergeVars, listVars, sasVars, submitVars, parseVars, pollVars>>

\* "while not done: time.sleep(self.poll_interval)": the thread leaves the
\* loop when it reads done as true
leave_polling_loop ==
    /\ speechPc = "polling"
    /\ done
    /\ speechPc' = "stopping"
    /\ UNCHANGED <<has_error, error_message, done, speechSegments, canceledReasons, speechResult, callbackPc, sessionStopped>>
    /\ UNCHANGED <<ledgerVars, mergeVars, listVars, sasVars, submitVars, parseVars, pollVars>>

\* conversation_transcriber.stop_transcribing_async().get()
stop_transcribing ==
    /\ speechPc = "stopping"
    /\ speechPc' = "finalizing"
    /\ UNCHANGED <<has_error, error_message, done, speechSegments, canceledReasons, speechResult, callbackPc, sessionStopped>>
    /\ UNCHANGED <<ledgerVars, mergeVars, listVars, sasVars, submitVars, parseVars, pollVars>>

\* segments without those of speaker "Unknown" that have no text, numbered
filtered_segments(segs) ==
    LET kept == SelectSeq(segs, LAMBDA s : ~(s.speaker = "Unknown" /\ ~TextNotBlank(s.text)))
    IN  [i \in 1..Len(kept) |-> [kept[i] EXCEPT !.line_number = i]]

\* from the filtering of the segments to the return or the raise
build_result ==
    /\ speechPc = "finalizing"
    /\ speechSegments' = filtered_segments(speechSegments)
    /\ IF has_error
       THEN /\ speechPc' = "raised"
            /\ speechResult' = [returned |-> FALSE, raised |-> TRUE, success |-> FALSE,
                                message |-> IF Truthy(error_message) THEN error_message ELSE "Unknown error occurred"]
       ELSE /\ speechPc' = "returned"
            /\ speechResult' = [returned |-> TRUE, raised |-> FALSE, success |-> TRUE,
                                message |-> IF speechSegments' = << >>
                                            THEN "Transcription completed but no speech segments were detected."
                                            ELSE "Transcription completed successfully"]
    /\ UNCHANGED <<has_error, error_message, done, canceledReasons, callbackPc, sessionStopped>>
    /\ UNCHANGED <<ledgerVars, mergeVars, listVars, sasVars, submitVars, parseVars, pollVars>>

SpeechInit ==
    /\ speechPc = "created"
    /\ has_error = FALSE
    /\ error_message = NONE
    /\ done = FALSE
    /\ speechSegments = << >>
    /\ canceledReasons = << >>
    /\ speechResult = [returned |-> FALSE, raised |-> FALSE, success |-> FALSE, message |-> NONE]
    /\ callbackPc = "idle"
    /\ sessionStopped = FALSE
    /\ LedgerIdle
    /\ MergerIdle
    /\ ListIdle
    /\ SasIdle
    /\ SubmitIdle
    /\ ParseIdle
    /\ PollIdle

SpeechNext ==
    \/ start_transcribing
    \/ \E speaker_id \in {"Guest-1", ""}, text \in {"hello", " "} : transcribed_callback("RecognizedSpeech", speaker_id, text)
    \/ \E reason \in CancellationReasons, error_code \in CancellationErrorCodes : canceled_callback(reason, error_code)
    \/ canceled_callback_done
    \/ session_stopped_callback
    \/ leave_polling_loop
    \/ stop_transcribing
    \/ build_result

SpeechSpec == SpeechInit /\ [][SpeechNext]_vars

\* the calling thread and the callback thread are both scheduled again and
\* again: a callback that has started runs to its end, the polling loop
\* reads done again after every sleep, and the calls the thread makes after
\* the loop return
FairSpeechSpec ==
    /\ SpeechSpec
    /\ WF_vars(canceled_callback_done)
    /\ WF_vars(leave_polling_loop)
    /\ WF_vars(stop_transcribing)
    /\ WF_vars(build_result)

\* C20: when the synchronous session is over, a session whose
\* cancellations all had reason EndOfStream has returned a successful
\* result, and a session that failed has had a cancellation with reason
\* Error: no other cancellation reason marks the transcription as failed.
C20_OnlyErrorCancellationFails ==
    speechPc \in {"returned", "raised"} =>
        /\ (canceledReasons # << >> /\ \A i \in 1..Len(canceledReasons) : canceledReasons[i] = "EndOfStream")
              => (speechResult.returned /\ speechResult.success)
        /\ speechResult.raised => \E i \in 1..Len(canceledReasons) : canceledReasons[i] = "Error"

\* a terminal callback (canceled or session-stopped) has been delivered
TerminalCallbackFired == canceledReasons # << >> \/ sessionStopped

\* the calling thread has left the polling loop
LeftPollingLoop == speechPc \in {"stopping", "finalizing", "returned", "raised"}

\* C21: the calling thread is never past the polling loop unless a terminal
\* callback (session-stopped or canceled) has fired, and once a terminal
\* callback has fired the call eventually returns or raises.
C21_LeavesLoopOnlyAndEventuallyAfterTerminalCallback ==
    /\ [](LeftPollingLoop => TerminalCallbackFired)
    /\ TerminalCallbackFired ~> (speechPc \in {"returned", "raised"})

\* the call has returned after a session-stopped event and no cancellation
C21_Witness ==
    /\ speechPc = "returned"
    /\ sessionStopped
    /\ canceledReasons = << >>

=============================================================================
